---- MODULE Spec2Model ----
(***************************************************************************)
(* The TOON codec of src/src/app/app.ts: jsonToToon (encode) and           *)
(* toonToJson (decode) with their helpers, over JSON values.               *)
(*                                                                         *)
(* Texts are TLA+ strings; a character is a string of length 1.            *)
(* JSON values are tagged records:                                         *)
(*   [t |-> "null"]            null                                        *)
(*   [t |-> "bool", b |-> _]   true / false                                *)
(*   [t |-> "num",  n |-> _]   a finite number (an integer here)           *)
(*   [t |-> "inf",  neg |-> _] the non-finite numbers Infinity, -Infinity  *)
(*   [t |-> "str",  s |-> _]   a string                                    *)
(*   [t |-> "arr",  items |-> <<v1, ..., vn>>]                             *)
(*   [t |-> "obj",  kv |-> << <<k1, v1>>, ..., <<kn, vn>> >>]              *)
(* An object lists its properties in the order Object.keys / JSON.stringify*)
(* enumerate them.                                                         *)
(***************************************************************************)
EXTENDS Integers, Sequences, FiniteSets, TLC

VARIABLES
    pc,       \* "json": a value awaits encoding; "toon": a text awaits decoding;
              \* then "encoded", "decoded", "reencoded"
    origin,   \* "json" when the run started from a value, "toon" from a text
    value,    \* the value handed to jsonToToon
    typed,    \* the lines typed in as TOON text (when the run started from a text)
    toon,     \* the TOON text (jsonToToon's result, or the text typed in)
    decoded,  \* toonToJson's outcome for toon: a value, or a thrown Error
    toon2,    \* jsonToToon of decoded
    stack,    \* the values of the jsonToToon calls still to be made
    calls,    \* the number of jsonToToon calls made
    jsonInput,          \* the signal jsonInput: the text of the JSON pane
    toonManualInput,    \* the signal toonManualInput: the text typed in the TOON pane
    originalJsonInput,  \* the signal originalJsonInput
    log,      \* the handler calls made so far, each with its argument
    selectedModel,     \* the signal selectedModel
    lastModel,         \* the field lastModel
    updateInProgress,  \* the field updateInProgress
    tokenCountCache,   \* the Map tokenCountCache: its entries, each with its key and
                       \* count, and with the text and model countTokens counted
    inputTokens,       \* the signal inputTokens
    outputTokens,      \* the signal outputTokens
    tokenizers,        \* the models whose tokenizer field holds a tokenizer
    pending,           \* the updateTokenCounts calls waiting at an await
    cacheHits,         \* the counts the latest step of updateTokenCounts took from the cache
    effect    \* the constructor's effect: whether a signal it reads was set to a new
              \* value since it ran, and the toonOutput it read

\* The state of the codec runs, and the state of the panes.
codec == <<pc, origin, value, typed, toon, decoded, toon2, stack, calls>>

panes == <<jsonInput, toonManualInput, originalJsonInput, log>>

\* The state of the token counts, without the effect's.
counts == <<selectedModel, lastModel, updateInProgress, tokenCountCache,
            inputTokens, outputTokens, tokenizers, pending, cacheHits>>

vars == <<pc, origin, value, typed, toon, decoded, toon2, stack, calls,
          jsonInput, toonManualInput, originalJsonInput, log,
          selectedModel, lastModel, updateInProgress, tokenCountCache,
          inputTokens, outputTokens, tokenizers, pending, cacheHits, effect>>

-----------------------------------------------------------------------------
(* Values *)

Null == [t |-> "null"]

Bool(b) == [t |-> "bool", b |-> b]

Num(n) == [t |-> "num", n |-> n]

Inf(neg) == [t |-> "inf", neg |-> neg]

Str(s) == [t |-> "str", s |-> s]

Arr(items) == [t |-> "arr", items |-> items]

Obj(kv) == [t |-> "obj", kv |-> kv]

\* A thrown Error with its message: the outcome of a call that did not return.
Thrown(msg) == [t |-> "error", msg |-> msg]

NoValue == [t |-> "none"]

IsThrown(v) == v.t = "error"

\* typeof v === 'object' && v !== null && !Array.isArray(v)
IsPlainObject(v) == v.t = "obj"

IsScalar(v) == v.t \in {"null", "bool", "num", "str"}

\* Object.keys(o)
ObjectKeys(o) == [i \in 1..Len(o.kv) |-> o.kv[i][1]]

\* key in o
HasKey(o, key) == \E i \in 1..Len(o.kv) : o.kv[i][1] = key

\* The value undefined (a missing property).
Undefined == [t |-> "undefined"]

\* o[key]
Get(o, key) ==
    IF HasKey(o, key)
    THEN o.kv[CHOOSE i \in 1..Len(o.kv) : o.kv[i][1] = key][2]
    ELSE Undefined

-----------------------------------------------------------------------------
(* String primitives of the JavaScript runtime *)

CharAt(s, i) == SubSeq(s, i, i)

Digits == {"0", "1", "2", "3", "4", "5", "6", "7", "8", "9"}

\* The white space String.prototype.trim and the regex class \s remove.
WhiteSpace == {" ", "\n", "\t", "\r"}

IsDigits(s) == Len(s) > 0 /\ \A i \in 1..Len(s) : CharAt(s, i) \in Digits

RECURSIVE TrimStart(_)
TrimStart(s) ==
    IF Len(s) > 0 /\ CharAt(s, 1) \in WhiteSpace THEN TrimStart(Tail(s)) ELSE s

RECURSIVE TrimEnd(_)
TrimEnd(s) ==
    IF Len(s) > 0 /\ CharAt(s, Len(s)) \in WhiteSpace
    THEN TrimEnd(SubSeq(s, 1, Len(s) - 1))
    ELSE s

\* s.trim()
Trim(s) == TrimEnd(TrimStart(s))

\* s.startsWith(p)
StartsWith(s, p) == Len(s) >= Len(p) /\ SubSeq(s, 1, Len(p)) = p

\* s.endsWith(p)
EndsWith(s, p) == Len(s) >= Len(p) /\ SubSeq(s, Len(s) - Len(p) + 1, Len(s)) = p

\* s.includes(c), c one character
Includes(s, c) == \E i \in 1..Len(s) : CharAt(s, i) = c

\* s.indexOf(c), c one character: 0-based, -1 when absent
IndexOf(s, c) ==
    IF Includes(s, c)
    THEN (CHOOSE i \in 1..Len(s) :
              CharAt(s, i) = c /\ \A j \in 1..(i - 1) : CharAt(s, j) # c) - 1
    ELSE -1

\* s.split(c), c one character: never empty, '' splits to ['']
RECURSIVE Split(_, _)
Split(s, c) ==
    LET k == IndexOf(s, c)
    IN  IF k < 0
        THEN <<s>>
        ELSE <<SubSeq(s, 1, k)>> \o Split(SubSeq(s, k + 2, Len(s)), c)

\* parts.join(sep)
RECURSIVE Join(_, _)
Join(parts, sep) ==
    IF Len(parts) = 0 THEN ""
    ELSE IF Len(parts) = 1 THEN parts[1]
    ELSE parts[1] \o sep \o Join(Tail(parts), sep)

\* arr.filter(keep), keep[i] telling whether arr[i] stays
RECURSIVE FilterSeq(_, _)
FilterSeq(arr, keep) ==
    IF Len(arr) = 0 THEN <<>>
    ELSE (IF keep[1] THEN <<arr[1]>> ELSE <<>>)
         \o FilterSeq(Tail(arr), Tail(keep))

DigitValue(c) ==
    CASE c = "0" -> 0 [] c = "1" -> 1 [] c = "2" -> 2 [] c = "3" -> 3
      [] c = "4" -> 4 [] c = "5" -> 5 [] c = "6" -> 6 [] c = "7" -> 7
      [] c = "8" -> 8 [] c = "9" -> 9

DigitChar(d) ==
    CASE d = 0 -> "0" [] d = 1 -> "1" [] d = 2 -> "2" [] d = 3 -> "3"
      [] d = 4 -> "4" [] d = 5 -> "5" [] d = 6 -> "6" [] d = 7 -> "7"
      [] d = 8 -> "8" [] d = 9 -> "9"

\* parseInt(s, 10) for a text of decimal digits
RECURSIVE ParseInt(_)
ParseInt(s) ==
    IF Len(s) = 0 THEN 0
    ELSE 10 * ParseInt(SubSeq(s, 1, Len(s) - 1)) + DigitValue(CharAt(s, Len(s)))

RECURSIVE NatToString(_)
NatToString(n) ==
    IF n < 10 THEN DigitChar(n) ELSE NatToString(n \div 10) \o DigitChar(n % 10)

\* String(n) for an integer n
IntToString(n) == IF n < 0 THEN "-" \o NatToString(-n) ELSE NatToString(n)

-----------------------------------------------------------------------------
(* The encoder: jsonToToon and formatToonValue *)

\* String(v): the runtime's string coercion.  An array is its elements'
\* coercions joined by ',' (null as the empty text), an object is
\* '[object Object]'.
RECURSIVE JsString(_)
JsString(v) ==
    CASE v.t = "null" -> "null"
      [] v.t = "bool" -> (IF v.b THEN "true" ELSE "false")
      [] v.t = "num"  -> IntToString(v.n)
      [] v.t = "inf"  -> (IF v.neg THEN "-Infinity" ELSE "Infinity")
      [] v.t = "str"  -> v.s
      [] v.t = "undefined" -> "undefined"
      [] v.t = "arr"  ->
            Join([i \in 1..Len(v.items) |->
                      IF v.items[i].t \in {"null", "undefined"}
                      THEN "" ELSE JsString(v.items[i])],
                 ",")
      [] v.t = "obj"  -> "[object Object]"

formatToonValue(v) ==
    IF v.t = "null" THEN "null"
    ELSE IF v.t = "str" THEN v.s
    ELSE IF v.t \in {"num", "inf", "bool"} THEN JsString(v)
    ELSE JsString(v)

\* allSameStructure without `keys.every((key) => key in item)`: the items are
\* compared by their number of keys alone.
allSameStructure_countOnly(items, keys) ==
    \A i \in 1..Len(items) :
        /\ IsPlainObject(items[i])
        /\ Len(items[i].kv) = Len(keys)

\* obj.every(item => item is a plain object with keys.length keys, all of
\* keys among them)
allSameStructure(items, keys) ==
    \A i \in 1..Len(items) :
        /\ IsPlainObject(items[i])
        /\ Len(items[i].kv) = Len(keys)
        /\ \A k \in 1..Len(keys) : HasKey(items[i], keys[k])

\* The tabular test both array branches make: a plain-object first item and
\* every item of its structure, with at least one key.
IsTabular(items) ==
    /\ Len(items) > 0
    /\ IsPlainObject(items[1])
    /\ allSameStructure(items, ObjectKeys(items[1]))
    /\ Len(items[1].kv) > 0

\* `${prefix}[${items.length}]{${keys.join(',')}}:`
TabularHeader(prefix, items, keys) ==
    prefix \o "[" \o IntToString(Len(items)) \o "]{" \o Join(keys, ",") \o "}:"

\* TabularRows that lists each item's values in the item's own key order.
TabularRows_ownOrder(items, keys) ==
    [i \in 1..Len(items) |->
        Join([k \in 1..Len(items[i].kv) |-> formatToonValue(items[i].kv[k][2])], ",")]

\* items.map(item => keys.map(key => formatToonValue(item[key])).join(','))
TabularRows(items, keys) ==
    [i \in 1..Len(items) |->
        Join([k \in 1..Len(keys) |-> formatToonValue(Get(items[i], keys[k]))], ",")]

\* arr.map(line => `  ${line}`)
Indent(lines) == [i \in 1..Len(lines) |-> "  " \o lines[i]]

RECURSIVE Flatten(_)
Flatten(seqs) == IF Len(seqs) = 0 THEN <<>> ELSE seqs[1] \o Flatten(Tail(seqs))

RECURSIVE jsonToToon(_)

\* EntryLines that takes the block form for a nested object only when its
\* encoding has several lines: `nested.includes('\n')` alone.
EntryLines_newlineOnly(key, val) ==
    IF val.t = "arr" /\ IsTabular(val.items)
    THEN <<TabularHeader(key, val.items, ObjectKeys(val.items[1]))>>
         \o TabularRows(val.items, ObjectKeys(val.items[1]))
    ELSE IF IsPlainObject(val)
    THEN LET nested == jsonToToon(val)
         IN  IF Includes(nested, "\n")
             THEN <<key \o ":">> \o Indent(Split(nested, "\n"))
             ELSE <<key \o ": " \o nested>>
    ELSE <<key \o ": " \o formatToonValue(val)>>

\* The lines one key of an object contributes (the body of keys.forEach).
EntryLines(key, val) ==
    IF val.t = "arr" /\ IsTabular(val.items)
    THEN <<TabularHeader(key, val.items, ObjectKeys(val.items[1]))>>
         \o TabularRows(val.items, ObjectKeys(val.items[1]))
    ELSE IF IsPlainObject(val)
    THEN LET nested == jsonToToon(val)
         IN  IF Includes(nested, "\n") \/ Includes(nested, "[") \/ Includes(nested, "{")
             THEN <<key \o ":">> \o Indent(Split(nested, "\n"))
             ELSE <<key \o ": " \o nested>>
    ELSE <<key \o ": " \o formatToonValue(val)>>

\* The values jsonToToon(obj) calls itself with: the items of an array that is
\* not tabular, and the plain objects among an object's values.
\* RecursiveCalls_self is the slip `this.jsonToToon(obj)` for
\* `this.jsonToToon(item)` in the array branch.
RecursiveCalls_self(obj) ==
    IF obj.t = "arr" /\ Len(obj.items) > 0 /\ ~IsTabular(obj.items)
    THEN [i \in 1..Len(obj.items) |-> obj]
    ELSE IF obj.t = "obj"
    THEN FilterSeq([i \in 1..Len(obj.kv) |-> obj.kv[i][2]],
                   [i \in 1..Len(obj.kv) |-> IsPlainObject(obj.kv[i][2])])
    ELSE <<>>

RecursiveCalls(obj) ==
    IF obj.t = "arr" /\ Len(obj.items) > 0 /\ ~IsTabular(obj.items)
    THEN obj.items
    ELSE IF obj.t = "obj"
    THEN FilterSeq([i \in 1..Len(obj.kv) |-> obj.kv[i][2]],
                   [i \in 1..Len(obj.kv) |-> IsPlainObject(obj.kv[i][2])])
    ELSE <<>>

jsonToToon(obj) ==
    IF obj.t = "null" THEN "null"
    ELSE IF obj.t = "str" THEN obj.s
    ELSE IF obj.t \in {"num", "inf", "bool"} THEN JsString(obj)
    ELSE IF obj.t = "arr"
    THEN IF Len(obj.items) = 0 THEN "[]:"
         ELSE IF IsTabular(obj.items)
         THEN TabularHeader("", obj.items, ObjectKeys(obj.items[1])) \o "\n"
              \o Join(TabularRows(obj.items, ObjectKeys(obj.items[1])), "\n")
         ELSE Join([i \in 1..Len(obj.items) |-> jsonToToon(obj.items[i])], "\n")
    ELSE IF obj.t = "obj"
    THEN IF Len(obj.kv) = 0 THEN "{}:"
         ELSE Join(Flatten([i \in 1..Len(obj.kv) |->
                               EntryLines(obj.kv[i][1], obj.kv[i][2])]), "\n")
    ELSE JsString(obj)

-----------------------------------------------------------------------------
(* The decoder: toonToJson, parseToonArray, parseToonObject, parseToonValue *)

\* The number of consecutive decimal digits of s from position i on.
RECURSIVE DigitRun(_, _)
DigitRun(s, i) ==
    IF i <= Len(s) /\ CharAt(s, i) \in Digits THEN 1 + DigitRun(s, i + 1) ELSE 0

\* The match of s against  ^\[(\d+)\]\{(.*)\}:$  : the digits and the text
\* between the first '{' and the closing '}:' ('.' takes no line terminator).
MatchHeader(s) ==
    LET d == DigitRun(s, 2)
        matches ==
            /\ StartsWith(s, "[")
            /\ d >= 1
            /\ SubSeq(s, d + 2, d + 3) = "]{"
            /\ Len(s) >= d + 5
            /\ EndsWith(s, "}:")
            /\ \A i \in (d + 4)..(Len(s) - 2) : CharAt(s, i) \notin {"\n", "\r"}
    IN  IF matches
        THEN [ok |-> TRUE, count |-> SubSeq(s, 2, d + 1),
              cols |-> SubSeq(s, d + 4, Len(s) - 2)]
        ELSE [ok |-> FALSE, count |-> "", cols |-> ""]

\* s.match(/^\[\d+\]\{.*\}:$/): the test that takes a line for an array header
LooksLikeArrayHeader(s) == MatchHeader(s).ok

\* s.match(/^\[(\d+)\]\{(.+)\}:$/): the header grammar parseToonArray needs
IsArrayHeader(s) == MatchHeader(s).ok /\ Len(MatchHeader(s).cols) >= 1

\* s.match(/^[^:]+:\s/): the "this looks like a new key line" test
LooksLikeKeyLine(s) ==
    LET k == IndexOf(s, ":")
    IN  k >= 1 /\ k + 2 <= Len(s) /\ CharAt(s, k + 2) \in WhiteSpace

\* Number(s), for the texts the runtime reads as an integer or as an
\* infinity; every other text of the model's alphabet is NaN.  (Fractions,
\* exponents and 0x/0o/0b literals are outside the alphabet.)
ToNumber(s) ==
    LET t == Trim(s)
        signed == Len(t) > 0 /\ CharAt(t, 1) \in {"-", "+"}
        neg == Len(t) > 0 /\ CharAt(t, 1) = "-"
        body == IF signed THEN Tail(t) ELSE t
    IN  IF t = "" THEN [nan |-> FALSE, v |-> Num(0)]
        ELSE IF IsDigits(body)
        THEN [nan |-> FALSE, v |-> Num(IF neg THEN -ParseInt(body) ELSE ParseInt(body))]
        ELSE IF body = "Infinity" THEN [nan |-> FALSE, v |-> Inf(neg)]
        ELSE [nan |-> TRUE, v |-> NoValue]

parseToonValue(text) ==
    IF text = "null" THEN Null
    ELSE IF text = "true" THEN Bool(TRUE)
    ELSE IF text = "false" THEN Bool(FALSE)
    ELSE IF text = "" THEN Str("")
    ELSE IF ~ToNumber(text).nan /\ Trim(text) # "" THEN ToNumber(text).v
    ELSE Str(text)

\* A property name that is a canonical array index: the runtime enumerates
\* these first, in ascending numeric order, before the names in insertion
\* order.  (Names of up to nine digits; the ten-digit indices below 2^32 - 1
\* are beyond the integers of the model.)
IsArrayIndex(key) ==
    /\ IsDigits(key)
    /\ (key = "0" \/ CharAt(key, 1) # "0")
    /\ Len(key) <= 9

\* The number of leading properties of kv that are array indices below n.
RECURSIVE IndexPrefix(_, _)
IndexPrefix(kv, n) ==
    IF Len(kv) > 0 /\ IsArrayIndex(kv[1][1]) /\ ParseInt(kv[1][1]) < n
    THEN 1 + IndexPrefix(Tail(kv), n)
    ELSE 0

\* item[key] = val on a plain object with the properties kv
SetProperty(kv, key, val) ==
    IF \E i \in 1..Len(kv) : kv[i][1] = key
    THEN [i \in 1..Len(kv) |-> IF kv[i][1] = key THEN <<key, val>> ELSE kv[i]]
    ELSE IF IsArrayIndex(key)
    THEN LET p == IndexPrefix(kv, ParseInt(key))
         IN  SubSeq(kv, 1, p) \o << <<key, val>> >> \o SubSeq(kv, p + 1, Len(kv))
    ELSE Append(kv, <<key, val>>)

\* arr.map(s => s.trim())
TrimAll(parts) == [i \in 1..Len(parts) |-> Trim(parts[i])]

\* keys.forEach((key, index) => item[key] = parseToonValue(values[index] || ''))
\* from the key at position index on
RECURSIVE RowItem(_, _, _, _)
RowItem(keys, values, index, kv) ==
    IF index > Len(keys) THEN kv
    ELSE RowItem(keys, values, index + 1,
                 SetProperty(kv, keys[index],
                             parseToonValue(IF index <= Len(values)
                                            THEN values[index] ELSE "")))

Min(a, b) == IF a < b THEN a ELSE b

\* RowCount without the loop's `result.length < count`: every line is a row.
RowCount_allLines(count, lines) == Len(lines) - 1

\* The rows the for loop of parseToonArray consumes: lines[1..] while fewer
\* than count items were pushed.
RowCount(count, lines) == Min(count, Len(lines) - 1)

\* parseToonArray that also throws when the rows are not as many as the header
\* declares.
parseToonArray_strictCount(lines) ==
    IF Len(lines) = 0 THEN Arr(<<>>)
    ELSE LET header == Trim(lines[1])
         IN  IF ~IsArrayHeader(header)
             THEN Thrown("Invalid array header format")
             ELSE LET count == ParseInt(MatchHeader(header).count)
                      keys == TrimAll(Split(MatchHeader(header).cols, ","))
                  IN  IF Len(lines) - 1 # count
                      THEN Thrown("Row count mismatch")
                      ELSE Arr([i \in 1..RowCount(count, lines) |->
                              Obj(RowItem(keys, TrimAll(Split(lines[i + 1], ",")),
                                          1, <<>>))])

parseToonArray(lines) ==
    IF Len(lines) = 0 THEN Arr(<<>>)
    ELSE LET header == Trim(lines[1])
         IN  IF ~IsArrayHeader(header)
             THEN Thrown("Invalid array header format")
             ELSE LET count == ParseInt(MatchHeader(header).count)
                      keys == TrimAll(Split(MatchHeader(header).cols, ","))
                  IN  Arr([i \in 1..RowCount(count, lines) |->
                              Obj(RowItem(keys, TrimAll(Split(lines[i + 1], ",")),
                                          1, <<>>))])

\* RowBlockEnd that never stops at a key line: the block runs to the last
\* line.
RowBlockEnd_toLastLine(lines, j) == Len(lines) + 1

\* The end j of the row block that starts at line j0: the first line from j0
\* on that ends with ':' or looks like a key line, or the end of the lines.
RECURSIVE RowBlockEnd(_, _)
RowBlockEnd(lines, j) ==
    IF j <= Len(lines) /\ ~EndsWith(Trim(lines[j]), ":")
                       /\ ~LooksLikeKeyLine(Trim(lines[j]))
    THEN RowBlockEnd(lines, j + 1)
    ELSE j

\* The end j of the nested block that starts at line j0.
RECURSIVE NestedBlockEnd(_, _)
NestedBlockEnd(lines, j) ==
    IF j <= Len(lines) /\ StartsWith(lines[j], "  ")
    THEN NestedBlockEnd(lines, j + 1)
    ELSE j

RECURSIVE parseToonObjectFrom(_, _, _)

parseToonObject(lines) == parseToonObjectFrom(lines, 1, <<>>)

\* The loop with `i++` for `i += 2` after a bare key line's value line: the
\* value line is read again as a line of its own.
parseToonObjectFrom_oneLine(lines, i, kv) ==
    IF i > Len(lines) THEN Obj(kv)
    ELSE LET line == Trim(lines[i])
         IN
         IF line = "" THEN parseToonObjectFrom(lines, i + 1, kv)
         ELSE IF EndsWith(line, ":")
         THEN LET key == Trim(SubSeq(line, 1, Len(line) - 1))
                  hasNext == i + 1 <= Len(lines)
                  nextLine == Trim(lines[i + 1])
              IN  IF hasNext /\ LooksLikeArrayHeader(nextLine)
                  THEN LET j == RowBlockEnd(lines, i + 2)
                           arr == parseToonArray(<<nextLine>> \o SubSeq(lines, i + 2, j - 1))
                       IN  IF IsThrown(arr) THEN arr
                           ELSE parseToonObjectFrom(lines, j, SetProperty(kv, key, arr))
                  ELSE IF hasNext /\ StartsWith(nextLine, "  ")
                  THEN LET j == NestedBlockEnd(lines, i + 1)
                           nested == parseToonObject(
                                        [n \in 1..(j - i - 1) |->
                                            SubSeq(lines[i + n], 3, Len(lines[i + n]))])
                       IN  IF IsThrown(nested) THEN nested
                           ELSE parseToonObjectFrom(lines, j, SetProperty(kv, key, nested))
                  ELSE IF hasNext
                  THEN parseToonObjectFrom(lines, i + 1,
                          SetProperty(kv, key, parseToonValue(Trim(lines[i + 1]))))
                  ELSE parseToonObjectFrom(lines, i + 1, SetProperty(kv, key, Null))
         ELSE LET colonIndex == IndexOf(line, ":")
              IN  IF colonIndex > 0
                  THEN parseToonObjectFrom(lines, i + 1,
                          SetProperty(kv, Trim(SubSeq(line, 1, colonIndex)),
                              parseToonValue(Trim(SubSeq(line, colonIndex + 2, Len(line))))))
                  ELSE parseToonObjectFrom(lines, i + 1, kv)

\* The while loop of parseToonObject at index i (1-based here) with the
\* properties kv collected so far.
parseToonObjectFrom(lines, i, kv) ==
    IF i > Len(lines) THEN Obj(kv)
    ELSE LET line == Trim(lines[i])
         IN
         IF line = "" THEN parseToonObjectFrom(lines, i + 1, kv)
         ELSE IF EndsWith(line, ":")
         THEN LET key == Trim(SubSeq(line, 1, Len(line) - 1))
                  hasNext == i + 1 <= Len(lines)
                  nextLine == Trim(lines[i + 1])
              IN  IF hasNext /\ LooksLikeArrayHeader(nextLine)
                  THEN LET j == RowBlockEnd(lines, i + 2)
                           arr == parseToonArray(<<nextLine>> \o SubSeq(lines, i + 2, j - 1))
                       IN  IF IsThrown(arr) THEN arr
                           ELSE parseToonObjectFrom(lines, j, SetProperty(kv, key, arr))
                  ELSE IF hasNext /\ StartsWith(nextLine, "  ")
                  THEN LET j == NestedBlockEnd(lines, i + 1)
                           nested == parseToonObject(
                                        [n \in 1..(j - i - 1) |->
                                            SubSeq(lines[i + n], 3, Len(lines[i + n]))])
                       IN  IF IsThrown(nested) THEN nested
                           ELSE parseToonObjectFrom(lines, j, SetProperty(kv, key, nested))
                  ELSE IF hasNext
                  THEN parseToonObjectFrom(lines, i + 2,
                          SetProperty(kv, key, parseToonValue(Trim(lines[i + 1]))))
                  ELSE parseToonObjectFrom(lines, i + 1, SetProperty(kv, key, Null))
         ELSE LET colonIndex == IndexOf(line, ":")
              IN  IF colonIndex > 0
                  THEN parseToonObjectFrom(lines, i + 1,
                          SetProperty(kv, Trim(SubSeq(line, 1, colonIndex)),
                              parseToonValue(Trim(SubSeq(line, colonIndex + 2, Len(line))))))
                  ELSE parseToonObjectFrom(lines, i + 1, kv)

\* toonString.trim().split('\n').filter(line => line.trim())
NonBlankLines(toonString) ==
    LET all == Split(Trim(toonString), "\n")
    IN  FilterSeq(all, [i \in 1..Len(all) |-> Trim(all[i]) # ""])

\* toonToJson without the `firstLine === '{}:'` case.
toonToJson_noEmptyObject(toonString) ==
    LET lines == NonBlankLines(toonString)
    IN  IF Len(lines) = 0 THEN Obj(<<>>)
        ELSE IF Trim(lines[1]) = "[]:" THEN Arr(<<>>)
        ELSE IF LooksLikeArrayHeader(Trim(lines[1])) THEN parseToonArray(lines)
        ELSE parseToonObject(lines)

\* toonToJson that dispatches on the full header grammar (.+ for the column
\* list) instead of /^\[\d+\]\{.*\}:$/.
toonToJson_strictDispatch(toonString) ==
    LET lines == NonBlankLines(toonString)
    IN  IF Len(lines) = 0 THEN Obj(<<>>)
        ELSE IF Trim(lines[1]) = "[]:" THEN Arr(<<>>)
        ELSE IF Trim(lines[1]) = "{}:" THEN Obj(<<>>)
        ELSE IF IsArrayHeader(Trim(lines[1])) THEN parseToonArray(lines)
        ELSE parseToonObject(lines)

toonToJson(toonString) ==
    LET lines == NonBlankLines(toonString)
    IN  IF Len(lines) = 0 THEN Obj(<<>>)
        ELSE IF Trim(lines[1]) = "[]:" THEN Arr(<<>>)
        ELSE IF Trim(lines[1]) = "{}:" THEN Obj(<<>>)
        ELSE IF LooksLikeArrayHeader(Trim(lines[1])) THEN parseToonArray(lines)
        ELSE parseToonObject(lines)

-----------------------------------------------------------------------------
(* The inputs of the model *)

\* The longest array handed to jsonToToon by the array families below.
MaxRows == 2

\* The most lines of a typed TOON text.
MaxLines == 3

\* The sequences over S of length 1..n.
SeqsUpTo(S, n) == UNION {[1..k -> S] : k \in 1..n}

Numbers == {0, 7, -3, 12}

Strings == {"", "x", "7", "true", "a b"}

Scalars ==
    {Null, Bool(TRUE), Bool(FALSE)} \cup {Num(n) : n \in Numbers}
        \cup {Str(s) : s \in Strings}

\* Key lists as Object.keys can return them (an array index comes first).
KeyLists == {<<"a">>, <<"a", "b">>, <<"b", "a">>, <<"1", "b">>}

\* The non-empty objects with the keys of a list of KeyLists and values of S.
ObjectsOver(keyLists, S) ==
    {Obj([i \in 1..Len(ks) |-> <<ks[i], vs[i]>>]) :
        <<ks, vs>> \in UNION {{ks} \X [1..Len(ks) -> S] : ks \in keyLists}}

ScalarObjects == ObjectsOver(KeyLists, Scalars)

\* Arrays of one-column records with every kind of scalar cell.
TableArrays ==
    {Arr(rows) :
        rows \in SeqsUpTo(ObjectsOver({<<"a">>},
                     {Null, Bool(TRUE), Num(7), Str("x"), Str("7"), Str("")}),
                 MaxRows)}

\* Arrays of records of equal and of differing shapes.
ShapeArrays ==
    {Arr(rows) :
        rows \in SeqsUpTo(ObjectsOver({<<"a">>, <<"b">>, <<"a", "b">>, <<"b", "a">>},
                     {Num(7), Str("x")}),
                 MaxRows)}

\* Objects holding one nested object with scalar fields.
NestedObjects ==
    {Obj(<< <<k, n>> >>) :
        k \in {"addr"},
        n \in ObjectsOver(KeyLists, {Num(7), Str("x"), Str(""), Str("[x]")})
              \cup {Obj(<< <<"city", Str("x")>> >>)}}

\* Value trees of growing depth, of every variant.
Leaves == {Null, Bool(TRUE), Num(7), Str("x")}

Level1 ==
    Leaves \cup {Arr(<<>>), Obj(<<>>)}
        \cup {Arr(items) : items \in SeqsUpTo(Leaves, 2)}
        \cup {Obj(<< <<"a", v>> >>) : v \in Leaves}

Level2 ==
    UNION {{Arr(<<x>>),
            Arr(<<x, Obj(<< <<"a", Num(7)>> >>)>>),
            Obj(<< <<"k", x>> >>),
            Obj(<< <<"k", x>>, <<"m", Arr(<<x>>)>> >>)} : x \in Level1}

Level3 == UNION {{Arr(<<x>>), Obj(<< <<"r", x>> >>)} : x \in Level2}

Trees == Level1 \cup Level2 \cup Level3

\* Objects that hold an array of records under a key, alone or beside a
\* scalar.
KeyedArrays ==
    UNION {{Obj(<< <<"k", Arr(rows)>> >>),
            Obj(<< <<"k", Arr(rows)>>, <<"m", Num(7)>> >>)} :
        rows \in SeqsUpTo(ObjectsOver({<<"a">>, <<"a", "b">>, <<"b", "a">>},
                     {Num(7), Str("x")}),
                 MaxRows)}

JsonInputs ==
    Scalars \cup ScalarObjects \cup TableArrays \cup ShapeArrays
        \cup NestedObjects \cup Trees \cup KeyedArrays

\* The lines a TOON text is typed from.
HeaderLine(count, keys) == [kind |-> "header", count |-> count, keys |-> keys]

RowLine(cells) == [kind |-> "row", cells |-> cells]

TextLine(s) == [kind |-> "text", s |-> s]

\* The text of a typed line.
Render(l) ==
    CASE l.kind = "header" ->
            "[" \o IntToString(l.count) \o "]{" \o Join(l.keys, ",") \o "}:"
      [] l.kind = "row" -> Join(l.cells, ",")
      [] l.kind = "text" -> l.s

RenderAll(ls) == Join([i \in 1..Len(ls) |-> Render(ls[i])], "\n")

LinePool ==
    {HeaderLine(2, <<"a", "b">>), HeaderLine(1, <<"b", "1">>), HeaderLine(2, <<>>),
     RowLine(<<"7", " x">>), RowLine(<<"x">>),
     TextLine("k: 7"), TextLine("k:"), TextLine("")}

\* A bare key line, one or two lines indented by two spaces, and then nothing
\* or one more key line.
NestedTexts ==
    {<<TextLine("addr:")>> \o block \o rest :
        block \in SeqsUpTo({TextLine("  city: x"), TextLine("  zip: 7")}, 2),
        rest \in {<<>>, <<TextLine("k: 7")>>}}

\* The sequences over S of length 0..n.
SeqsFromZero(S, n) == {<<>>} \cup SeqsUpTo(S, n)

\* A bare key line, a header, up to MaxRows lines under it, and then nothing,
\* a key/value line, or a bare key line with its value line.
KeyedTableTexts ==
    {<<TextLine("k:"), header>> \o rows \o rest :
        header \in {HeaderLine(2, <<"a", "b">>), HeaderLine(1, <<"a">>)},
        rows \in SeqsFromZero({RowLine(<<"7", " x">>), RowLine(<<"x">>),
                               TextLine("u:7")}, MaxRows),
        rest \in {<<>>, <<TextLine("m: 7")>>, <<TextLine("m:"), RowLine(<<"x">>)>>}}

\* An empty-container literal as the first line, alone or before a key line.
LiteralTexts ==
    {<<TextLine(l)>> \o rest :
        l \in {"[]:", "{}:"}, rest \in {<<>>, <<TextLine("k: 7")>>}}

\* The scalar texts typed after a key.
ScalarTexts ==
    {"null", "true", "false", "7", "-3", "+12", "x", "NaN", "Infinity", "-Infinity"}

\* One key/value line for each scalar text.
ScalarLineTexts == {<<TextLine("v: " \o s)>> : s \in ScalarTexts}

TypedInputs ==
    SeqsUpTo(LinePool, MaxLines) \cup NestedTexts \cup KeyedTableTexts
        \cup LiteralTexts \cup ScalarLineTexts

-----------------------------------------------------------------------------
(* The runs: a value is encoded, the text decoded and the result encoded     *)
(* again; or a typed text is decoded and the result encoded.                 *)

\* The component as it is constructed, before any sample is loaded: the panes
\* are empty, the counts 0, no tokenizer is loaded and the effect has yet to run.
PanesInit ==
    /\ jsonInput = ""
    /\ toonManualInput = ""
    /\ originalJsonInput = ""
    /\ log = <<>>
    /\ selectedModel = "openai"
    /\ lastModel = "openai"
    /\ updateInProgress = FALSE
    /\ tokenCountCache = {}
    /\ inputTokens = 0
    /\ outputTokens = 0
    /\ tokenizers = {}
    /\ pending = <<>>
    /\ cacheHits = {}
    /\ effect = [dirty |-> TRUE, output |-> ""]

Init ==
    /\ PanesInit
    /\ decoded = NoValue
    /\ toon2 = ""
    /\ stack = <<>>
    /\ calls = 0
    /\ \/ /\ origin = "json"
          /\ pc = "json"
          /\ value \in JsonInputs
          /\ typed = <<>>
          /\ toon = ""
       \/ /\ origin = "toon"
          /\ pc = "toon"
          /\ value = NoValue
          /\ typed \in TypedInputs
          /\ toon = RenderAll(typed)

\* toonOutput: this.jsonToToon(jsonObject)
Encode ==
    /\ pc = "json"
    /\ toon' = jsonToToon(value)
    /\ pc' = "encoded"
    /\ UNCHANGED <<origin, value, typed, decoded, toon2, stack, calls>>
    /\ UNCHANGED panes
    /\ UNCHANGED <<counts, effect>>

\* onToonChange: this.toonToJson(value)
Decode ==
    /\ pc \in {"encoded", "toon"}
    /\ decoded' = toonToJson(toon)
    /\ pc' = "decoded"
    /\ UNCHANGED <<origin, value, typed, toon, toon2, stack, calls>>
    /\ UNCHANGED panes
    /\ UNCHANGED <<counts, effect>>

\* toonOutput again, for the value the decoder produced
ReEncode ==
    /\ pc = "decoded"
    /\ ~IsThrown(decoded)
    /\ toon2' = jsonToToon(decoded)
    /\ pc' = "reencoded"
    /\ UNCHANGED <<origin, value, typed, toon, decoded, stack, calls>>
    /\ UNCHANGED panes
    /\ UNCHANGED <<counts, effect>>

Next == Encode \/ Decode \/ ReEncode

Spec == Init /\ [][Next]_vars

-----------------------------------------------------------------------------
(* The calls of one encoding: jsonToToon's recursion, one call a step.       *)

\* The number of nodes of a value tree.
RECURSIVE Nodes(_)
RECURSIVE NodesOfAll(_)
NodesOfAll(vs) == IF Len(vs) = 0 THEN 0 ELSE Nodes(vs[1]) + NodesOfAll(Tail(vs))

Nodes(v) ==
    IF v.t = "arr" THEN 1 + NodesOfAll(v.items)
    ELSE IF v.t = "obj" THEN 1 + NodesOfAll([i \in 1..Len(v.kv) |-> v.kv[i][2]])
    ELSE 1

CallInit ==
    /\ PanesInit
    /\ pc = "calling"
    /\ origin = "json"
    /\ value \in JsonInputs
    /\ typed = <<>>
    /\ toon = ""
    /\ decoded = NoValue
    /\ toon2 = ""
    /\ stack = <<value>>
    /\ calls = 0

\* One call of jsonToToon: it is entered with the value on top of the stack,
\* and the calls it makes itself are pending.
Call ==
    /\ pc = "calling"
    /\ stack # <<>>
    /\ calls' = calls + 1
    /\ stack' = RecursiveCalls(Head(stack)) \o Tail(stack)
    /\ UNCHANGED <<pc, origin, value, typed, toon, decoded, toon2>>
    /\ UNCHANGED panes
    /\ UNCHANGED <<counts, effect>>

\* The outermost call returns its text.
Return ==
    /\ pc = "calling"
    /\ stack = <<>>
    /\ toon' = jsonToToon(value)
    /\ pc' = "encoded"
    /\ UNCHANGED <<origin, value, typed, decoded, toon2, stack, calls>>
    /\ UNCHANGED panes
    /\ UNCHANGED <<counts, effect>>

CallNext == Call \/ Return

CallSpec == CallInit /\ [][CallNext]_vars

-----------------------------------------------------------------------------
(* The loops of one decoding: parseToonObject's while loop and               *)
(* parseToonArray's for loop, one iteration a step.  stack holds the calls   *)
(* in progress, the innermost first; calls counts the iterations made.       *)

\* A call of parseToonObject or parseToonArray: its lines, the index of the
\* line its loop is at (1-based; 1 in an array call is the header check) and
\* the items an array call has pushed.
Frame(kind, lines) == [kind |-> kind, lines |-> lines, i |-> 1, pushed |-> 0]

\* The iteration of parseToonObject's loop at line i: the index it leaves i
\* at, and the call it makes on the way.
\* ObjectStep_noAdvance has the `i++` of the key/value branch inside
\* `if (colonIndex > 0)`.
ObjectStep_noAdvance(lines, i) ==
    LET line == Trim(lines[i])
        hasNext == i + 1 <= Len(lines)
        nextLine == Trim(lines[i + 1])
    IN  IF line = "" THEN [next |-> i + 1, callee |-> <<>>]
        ELSE IF EndsWith(line, ":")
        THEN IF hasNext /\ LooksLikeArrayHeader(nextLine)
             THEN [next |-> RowBlockEnd(lines, i + 2),
                   callee |-> <<Frame("arr", <<nextLine>>
                                  \o SubSeq(lines, i + 2, RowBlockEnd(lines, i + 2) - 1))>>]
             ELSE IF hasNext /\ StartsWith(nextLine, "  ")
             THEN [next |-> NestedBlockEnd(lines, i + 1),
                   callee |-> <<Frame("obj",
                                  [n \in 1..(NestedBlockEnd(lines, i + 1) - i - 1) |->
                                      SubSeq(lines[i + n], 3, Len(lines[i + n]))])>>]
             ELSE IF hasNext THEN [next |-> i + 2, callee |-> <<>>]
             ELSE [next |-> i + 1, callee |-> <<>>]
        ELSE IF IndexOf(line, ":") > 0 THEN [next |-> i + 1, callee |-> <<>>]
        ELSE [next |-> i, callee |-> <<>>]

ObjectStep(lines, i) ==
    LET line == Trim(lines[i])
        hasNext == i + 1 <= Len(lines)
        nextLine == Trim(lines[i + 1])
    IN  IF line = "" THEN [next |-> i + 1, callee |-> <<>>]
        ELSE IF EndsWith(line, ":")
        THEN IF hasNext /\ LooksLikeArrayHeader(nextLine)
             THEN [next |-> RowBlockEnd(lines, i + 2),
                   callee |-> <<Frame("arr", <<nextLine>>
                                  \o SubSeq(lines, i + 2, RowBlockEnd(lines, i + 2) - 1))>>]
             ELSE IF hasNext /\ StartsWith(nextLine, "  ")
             THEN [next |-> NestedBlockEnd(lines, i + 1),
                   callee |-> <<Frame("obj",
                                  [n \in 1..(NestedBlockEnd(lines, i + 1) - i - 1) |->
                                      SubSeq(lines[i + n], 3, Len(lines[i + n]))])>>]
             ELSE IF hasNext THEN [next |-> i + 2, callee |-> <<>>]
             ELSE [next |-> i + 1, callee |-> <<>>]
        ELSE [next |-> i + 1, callee |-> <<>>]

\* The header's count of an array call whose header matches the grammar.
HeaderCount(lines) == ParseInt(MatchHeader(Trim(lines[1])).count)

\* An array call is past its header check and its for loop goes on.
ArrayLoopGoesOn(f) ==
    /\ f.i >= 2
    /\ f.i <= Len(f.lines)
    /\ f.pushed < HeaderCount(f.lines)

\* The loop of the call goes on.
LoopGoesOn(f) ==
    IF f.kind = "obj" THEN f.i <= Len(f.lines) ELSE ArrayLoopGoesOn(f)

\* An array call is at its header, which fails the grammar.
HeaderFails(f) ==
    /\ f.kind = "arr"
    /\ f.i = 1
    /\ Len(f.lines) > 0
    /\ ~IsArrayHeader(Trim(f.lines[1]))

\* toonToJson up to its dispatch: the call it makes on the filtered lines.
FirstCall(toonString) ==
    LET lines == NonBlankLines(toonString)
    IN  IF Len(lines) = 0 THEN <<>>
        ELSE IF Trim(lines[1]) = "[]:" THEN <<>>
        ELSE IF Trim(lines[1]) = "{}:" THEN <<>>
        ELSE IF LooksLikeArrayHeader(Trim(lines[1])) THEN <<Frame("arr", lines)>>
        ELSE <<Frame("obj", lines)>>

ParseInit ==
    /\ PanesInit
    /\ pc = "parsing"
    /\ origin = "toon"
    /\ value = NoValue
    /\ typed \in TypedInputs
    /\ toon = RenderAll(typed)
    /\ decoded = NoValue
    /\ toon2 = ""
    /\ stack = FirstCall(toon)
    /\ calls = 0

\* An array call passes its header check (a call with no lines returns at
\* once, by FrameReturn).
HeaderChecked ==
    /\ pc = "parsing"
    /\ stack # <<>>
    /\ Head(stack).kind = "arr"
    /\ Head(stack).i = 1
    /\ Len(Head(stack).lines) > 0
    /\ IsArrayHeader(Trim(Head(stack).lines[1]))
    /\ stack' = <<[Head(stack) EXCEPT !.i = 2]>> \o Tail(stack)
    /\ UNCHANGED <<pc, origin, value, typed, toon, decoded, toon2, calls>>
    /\ UNCHANGED panes
    /\ UNCHANGED <<counts, effect>>

\* One iteration of the innermost call's loop.
Iterate ==
    /\ pc = "parsing"
    /\ stack # <<>>
    /\ LoopGoesOn(Head(stack))
    /\ calls' = calls + 1
    /\ stack' =
          IF Head(stack).kind = "obj"
          THEN LET step == ObjectStep(Head(stack).lines, Head(stack).i)
               IN  step.callee \o <<[Head(stack) EXCEPT !.i = step.next]>> \o Tail(stack)
          ELSE <<[Head(stack) EXCEPT !.i = @ + 1, !.pushed = @ + 1]>> \o Tail(stack)
    /\ UNCHANGED <<pc, origin, value, typed, toon, decoded, toon2>>
    /\ UNCHANGED panes
    /\ UNCHANGED <<counts, effect>>

\* The innermost call's loop is over (or it was called with no lines): it
\* returns to its caller.
FrameReturn ==
    /\ pc = "parsing"
    /\ stack # <<>>
    /\ ~LoopGoesOn(Head(stack))
    /\ ~(Head(stack).kind = "arr" /\ Head(stack).i = 1 /\ Len(Head(stack).lines) > 0)
    /\ stack' = Tail(stack)
    /\ UNCHANGED <<pc, origin, value, typed, toon, decoded, toon2, calls>>
    /\ UNCHANGED panes
    /\ UNCHANGED <<counts, effect>>

\* parseToonArray throws at its header: every call in progress is left.
HeaderThrow ==
    /\ pc = "parsing"
    /\ stack # <<>>
    /\ HeaderFails(Head(stack))
    /\ stack' = <<>>
    /\ decoded' = Thrown("Invalid array header format")
    /\ pc' = "decoded"
    /\ UNCHANGED <<origin, value, typed, toon, toon2, calls>>
    /\ UNCHANGED panes
    /\ UNCHANGED <<counts, effect>>

\* toonToJson returns its value.
ParseReturn ==
    /\ pc = "parsing"
    /\ stack = <<>>
    /\ decoded' = toonToJson(toon)
    /\ pc' = "decoded"
    /\ UNCHANGED <<origin, value, typed, toon, toon2, stack, calls>>
    /\ UNCHANGED panes
    /\ UNCHANGED <<counts, effect>>

ParseNext == HeaderChecked \/ Iterate \/ FrameReturn \/ HeaderThrow \/ ParseReturn

ParseSpec == ParseInit /\ [][ParseNext]_vars

-----------------------------------------------------------------------------
(* The handlers of the two panes: onJsonChange and onToonChange.             *)

\* The most handler calls of one run of the panes.
MaxCalls == 3

\* The text of a JSON string literal's body: '"' and '\' escaped, the control
\* characters of the model's alphabet as \n, \t, \r.
RECURSIVE Escape(_)
Escape(s) ==
    IF Len(s) = 0 THEN ""
    ELSE (CASE CharAt(s, 1) = "\"" -> "\\\""
            [] CharAt(s, 1) = "\\" -> "\\\\"
            [] CharAt(s, 1) = "\n" -> "\\n"
            [] CharAt(s, 1) = "\t" -> "\\t"
            [] CharAt(s, 1) = "\r" -> "\\r"
            [] OTHER -> CharAt(s, 1))
         \o Escape(Tail(s))

Quote(s) == "\"" \o Escape(s) \o "\""

\* JSON.stringify(v, null, 2) with the current indentation gap: a non-finite
\* number prints as null, an empty container as [] or {}, every other
\* container one member a line, two spaces deeper.
RECURSIVE Stringify(_, _)
Stringify(v, gap) ==
    LET inner == gap \o "  "
    IN  CASE v.t = "null" -> "null"
          [] v.t = "bool" -> (IF v.b THEN "true" ELSE "false")
          [] v.t = "num"  -> IntToString(v.n)
          [] v.t = "inf"  -> "null"
          [] v.t = "str"  -> Quote(v.s)
          [] v.t = "arr"  ->
                IF Len(v.items) = 0 THEN "[]"
                ELSE "[\n"
                     \o Join([i \in 1..Len(v.items) |->
                                 inner \o Stringify(v.items[i], inner)], ",\n")
                     \o "\n" \o gap \o "]"
          [] v.t = "obj"  ->
                IF Len(v.kv) = 0 THEN "{}"
                ELSE "{\n"
                     \o Join([i \in 1..Len(v.kv) |->
                                 inner \o Quote(v.kv[i][1]) \o ": "
                                       \o Stringify(v.kv[i][2], inner)], ",\n")
                     \o "\n" \o gap \o "}"

JsonStringify(v) == Stringify(v, "")

\* The character of s at position p, '' past the end of s.
At(s, p) == IF p >= 1 /\ p <= Len(s) THEN CharAt(s, p) ELSE ""

\* s.slice(a - 1, b): the characters of s at positions a..b that s has.
Slice(s, a, b) == IF a > Len(s) THEN "" ELSE SubSeq(s, a, Min(b, Len(s)))

\* The outcome of a parsing step: whether it matched, the value and the
\* position after it.
Parsed(v, p) == [ok |-> TRUE, v |-> v, p |-> p]

NotParsed == [ok |-> FALSE, v |-> NoValue, p |-> 0]

\* The first position from p on that holds no JSON white space.
RECURSIVE SkipWs(_, _)
SkipWs(s, p) ==
    IF p <= Len(s) /\ At(s, p) \in WhiteSpace THEN SkipWs(s, p + 1) ELSE p

\* The body of a JSON string literal from p on, up to its closing quote, with
\* the escapes \" \\ \/ \n \t \r resolved; v is the text.  (\b, \f and \u
\* escapes are outside the model's alphabet.)
RECURSIVE ParseChars(_, _, _)
ParseChars(s, p, acc) ==
    IF p > Len(s) THEN NotParsed
    ELSE IF At(s, p) = "\"" THEN Parsed(acc, p + 1)
    ELSE IF At(s, p) \in {"\n", "\t", "\r"} THEN NotParsed
    ELSE IF At(s, p) = "\\"
    THEN IF p + 1 > Len(s) THEN NotParsed
         ELSE IF At(s, p + 1) \in {"\"", "\\", "/"}
         THEN ParseChars(s, p + 2, acc \o At(s, p + 1))
         ELSE IF At(s, p + 1) = "n" THEN ParseChars(s, p + 2, acc \o "\n")
         ELSE IF At(s, p + 1) = "t" THEN ParseChars(s, p + 2, acc \o "\t")
         ELSE IF At(s, p + 1) = "r" THEN ParseChars(s, p + 2, acc \o "\r")
         ELSE NotParsed
    ELSE ParseChars(s, p + 1, acc \o At(s, p))

\* A JSON number from p on: an optional '-', then 0 or digits that do not
\* start with 0.  (Fractions and exponents are outside the model's alphabet.)
ParseNumber(s, p) ==
    LET neg == At(s, p) = "-"
        q == IF neg THEN p + 1 ELSE p
        d == DigitRun(s, q)
    IN  IF d = 0 \/ (d > 1 /\ At(s, q) = "0") THEN NotParsed
        ELSE Parsed(Num(IF neg THEN -ParseInt(SubSeq(s, q, q + d - 1))
                        ELSE ParseInt(SubSeq(s, q, q + d - 1))),
                    q + d)

RECURSIVE ParseValue(_, _)
RECURSIVE ParseElements(_, _, _)
RECURSIVE ParseMembers(_, _, _)

\* The elements of an array from p on (after '[' or ','), items parsed so far.
ParseElements(s, p, items) ==
    LET e == ParseValue(s, p)
        q == SkipWs(s, e.p)
    IN  IF ~e.ok THEN NotParsed
        ELSE IF At(s, q) = "," THEN ParseElements(s, q + 1, Append(items, e.v))
        ELSE IF At(s, q) = "]" THEN Parsed(Arr(Append(items, e.v)), q + 1)
        ELSE NotParsed

\* The members of an object from p on (after '{' or ','), kv parsed so far.
ParseMembers(s, p, kv) ==
    LET k0 == SkipWs(s, p)
        key == IF At(s, k0) = "\"" THEN ParseChars(s, k0 + 1, "") ELSE NotParsed
        c == SkipWs(s, key.p)
        m == IF key.ok /\ At(s, c) = ":" THEN ParseValue(s, c + 1) ELSE NotParsed
        q == SkipWs(s, m.p)
    IN  IF ~m.ok THEN NotParsed
        ELSE IF At(s, q) = ","
        THEN ParseMembers(s, q + 1, SetProperty(kv, key.v, m.v))
        ELSE IF At(s, q) = "}" THEN Parsed(Obj(SetProperty(kv, key.v, m.v)), q + 1)
        ELSE NotParsed

\* A JSON value from p on, white space before it skipped.
ParseValue(s, p) ==
    LET q == SkipWs(s, p)
        c == At(s, q)
    IN  IF q > Len(s) THEN NotParsed
        ELSE IF c = "{"
        THEN IF At(s, SkipWs(s, q + 1)) = "}"
             THEN Parsed(Obj(<<>>), SkipWs(s, q + 1) + 1)
             ELSE ParseMembers(s, q + 1, <<>>)
        ELSE IF c = "["
        THEN IF At(s, SkipWs(s, q + 1)) = "]"
             THEN Parsed(Arr(<<>>), SkipWs(s, q + 1) + 1)
             ELSE ParseElements(s, q + 1, <<>>)
        ELSE IF c = "\""
        THEN LET t == ParseChars(s, q + 1, "")
             IN  IF t.ok THEN Parsed(Str(t.v), t.p) ELSE NotParsed
        ELSE IF Slice(s, q, q + 3) = "null" THEN Parsed(Null, q + 4)
        ELSE IF Slice(s, q, q + 3) = "true" THEN Parsed(Bool(TRUE), q + 4)
        ELSE IF Slice(s, q, q + 4) = "false" THEN Parsed(Bool(FALSE), q + 5)
        ELSE IF c = "-" \/ c \in Digits THEN ParseNumber(s, q)
        ELSE NotParsed

\* JSON.parse(text): the value, or a thrown SyntaxError (its message is the
\* engine's; one text stands for it).
JsonParse(text) ==
    LET r == ParseValue(text, 1)
    IN  IF r.ok /\ SkipWs(text, r.p) > Len(text)
        THEN r.v
        ELSE Thrown("Unexpected token in JSON")

\* The computed signal toonOutput for the pane texts json and manual.
ToonOutputOf(json, manual) ==
    IF Trim(manual) # "" THEN manual
    ELSE IF Trim(json) = "" THEN ""
    ELSE IF IsThrown(JsonParse(json)) THEN "Error: " \o JsonParse(json).msg
    ELSE jsonToToon(JsonParse(json))

toonOutput == ToonOutputOf(jsonInput, toonManualInput)

\* The record of a handler call.
Called(op, text) == [op |-> op, text |-> text]

\* onToonChange without its try/catch: the Error of toonToJson leaves the
\* handler, and jsonInput keeps the text it had.
onToonChange_noCatch(text) ==
    /\ Len(log) < MaxCalls
    /\ log' = Append(log, Called("onToonChange", text))
    /\ IF Trim(text) = ""
       THEN /\ jsonInput' = ""
            /\ toonManualInput' = ""
            /\ originalJsonInput' = ""
       ELSE /\ toonManualInput' = text
            /\ UNCHANGED originalJsonInput
            /\ LET jsonObject == toonToJson(text)
               IN  IF IsThrown(jsonObject)
                   THEN UNCHANGED jsonInput
                   ELSE IF ~StartsWith(JsonStringify(jsonObject), "Error:")
                        THEN jsonInput' = JsonStringify(jsonObject)
                        ELSE UNCHANGED jsonInput
    /\ effect' = [effect EXCEPT !.dirty = @ \/ jsonInput' # jsonInput]
    /\ UNCHANGED counts
    /\ UNCHANGED codec

onToonChange(text) ==
    /\ Len(log) < MaxCalls
    /\ log' = Append(log, Called("onToonChange", text))
    /\ IF Trim(text) = ""
       THEN /\ jsonInput' = ""
            /\ toonManualInput' = ""
            /\ originalJsonInput' = ""
       ELSE /\ toonManualInput' = text
            /\ UNCHANGED originalJsonInput
            /\ LET jsonObject == toonToJson(text)
               IN  IF IsThrown(jsonObject)
                   THEN jsonInput' = "Error: " \o jsonObject.msg
                   ELSE IF ~StartsWith(JsonStringify(jsonObject), "Error:")
                        THEN jsonInput' = JsonStringify(jsonObject)
                        ELSE UNCHANGED jsonInput
    /\ effect' = [effect EXCEPT !.dirty = @ \/ jsonInput' # jsonInput]
    /\ UNCHANGED counts
    /\ UNCHANGED codec

onJsonChange(text) ==
    /\ Len(log) < MaxCalls
    /\ log' = Append(log, Called("onJsonChange", text))
    /\ jsonInput' = text
    /\ IF ~StartsWith(text, "Error:")
       THEN originalJsonInput' = text
       ELSE UNCHANGED originalJsonInput
    /\ toonManualInput' = ""
    /\ effect' = [effect EXCEPT !.dirty = @ \/ jsonInput' # jsonInput]
    /\ UNCHANGED counts
    /\ UNCHANGED codec

\* formatAndSetJson that leaves the TOON pane's text as it is.
formatAndSetJson_keepManual(jsonString) ==
    /\ jsonInput' = IF IsThrown(JsonParse(jsonString))
                    THEN jsonString
                    ELSE JsonStringify(JsonParse(jsonString))
    /\ originalJsonInput' = jsonInput'
    /\ UNCHANGED toonManualInput

\* formatAndSetJson(jsonString)
formatAndSetJson(jsonString) ==
    /\ jsonInput' = IF IsThrown(JsonParse(jsonString))
                    THEN jsonString
                    ELSE JsonStringify(JsonParse(jsonString))
    /\ originalJsonInput' = jsonInput'
    /\ toonManualInput' = ""

\* onPaste(), when navigator.clipboard.readText() has resolved with text.
onPaste(text) ==
    /\ Len(log) < MaxCalls
    /\ log' = Append(log, Called("onPaste", text))
    /\ IF text # ""
       THEN formatAndSetJson(text)
       ELSE UNCHANGED <<jsonInput, originalJsonInput, toonManualInput>>
    /\ effect' = [effect EXCEPT !.dirty = @ \/ jsonInput' # jsonInput]
    /\ UNCHANGED counts
    /\ UNCHANGED codec

\* processFile(file), when the reader has loaded the file's content.
processFile(content) ==
    /\ Len(log) < MaxCalls
    /\ log' = Append(log, Called("processFile", content))
    /\ IF content # ""
       THEN formatAndSetJson(content)
       ELSE UNCHANGED <<jsonInput, originalJsonInput, toonManualInput>>
    /\ effect' = [effect EXCEPT !.dirty = @ \/ jsonInput' # jsonInput]
    /\ UNCHANGED counts
    /\ UNCHANGED codec

\* The sample of onExample.
exampleJson ==
    Obj(<< <<"name", Str("John Doe")>>, <<"age", Num(30)>>,
           <<"city", Str("New York")>>, <<"active", Bool(TRUE)>>,
           <<"tags", Arr(<<Str("developer"), Str("angular")>>)>>,
           <<"address", Obj(<< <<"street", Str("123 Main St")>>,
                               <<"zip", Str("10001")>> >>)>> >>)

\* onExample()
onExample ==
    /\ Len(log) < MaxCalls
    /\ log' = Append(log, Called("onExample", ""))
    /\ jsonInput' = JsonStringify(exampleJson)
    /\ originalJsonInput' = JsonStringify(exampleJson)
    /\ toonManualInput' = ""
    /\ effect' = [effect EXCEPT !.dirty = @ \/ jsonInput' # jsonInput]
    /\ UNCHANGED counts
    /\ UNCHANGED codec

\* The texts typed into the TOON pane: blank ones, ones that decode, ones on
\* which the decoder throws.
ToonTexts ==
    {"", "  ", "k: 7", "[1]{a}:\nx", "[2]{}:", "k:\n[2]{}:\nx"}

\* The texts typed into the JSON pane.
JsonTexts == {"", "{\"k\": 7}", "[]", "Error: x"}

PaneInit ==
    /\ PanesInit
    /\ pc = "panes"
    /\ origin = "panes"
    /\ value = NoValue
    /\ typed = <<>>
    /\ toon = ""
    /\ decoded = NoValue
    /\ toon2 = ""
    /\ stack = <<>>
    /\ calls = 0

ToonChange == \E text \in ToonTexts : onToonChange(text)

JsonChange == \E text \in JsonTexts : onJsonChange(text)

\* The texts read from the clipboard, and the contents of the files loaded.
PastedTexts == {"", "[1]"}

FileContents == {"{bad"}

Paste == \E text \in PastedTexts : onPaste(text)

FileLoad == \E content \in FileContents : processFile(content)

PaneNext == ToonChange \/ JsonChange \/ Paste \/ FileLoad \/ onExample

PaneSpec == PaneInit /\ [][PaneNext]_vars

-----------------------------------------------------------------------------
(* The token counts: the constructor's effect, updateTokenCounts,            *)
(* countTokens and the model selection.                                      *)

\* type TokenizerModel, and the models whose entry of this.models is not disabled.
Models == {"openai", "anthropic", "google", "xai", "llama"}

EnabledModels_all == Models

EnabledModels == {"openai"}

\* The models countTokens has a tokenizer field for.
TokenizerModels == {"openai", "anthropic"}

\* The characters of a text that make up its cache key.
KeyPrefixLength == 100

\* text repeated n times.
RECURSIVE Repeat(_, _)
Repeat(text, n) == IF n = 0 THEN "" ELSE text \o Repeat(text, n - 1)

\* getCacheKey(text, model)
getCacheKey(text, model) ==
    model \o ":" \o Slice(text, 1, KeyPrefixLength) \o ":" \o IntToString(Len(text))

\* Math.ceil(trimmed.length / 4)
FallbackCount(trimmed) == (Len(trimmed) + 3) \div 4

\* tokenizer.encode(trimmed).length. The tokenizers are libraries outside the
\* source: the one here gives every character a token of its own.
EncodedLength(trimmed) == Len(trimmed)

\* What countTokens(text) returns for a text that is not blank, with or
\* without the tokenizer of the selected model.
CountOf(text, hasTokenizer) ==
    IF hasTokenizer THEN EncodedLength(Trim(text)) ELSE FallbackCount(Trim(text))

\* input && input.trim() && !input.startsWith('Error:')
Countable(text) == Trim(text) # "" /\ ~StartsWith(text, "Error:")

\* The count updateTokenCounts sets before it looks at updateInProgress.
FirstCount(text) == IF Countable(text) THEN FallbackCount(Trim(text)) ELSE 0

\* An entry of tokenCountCache.
Entry(key, count, text, model) ==
    [key |-> key, count |-> count, text |-> text, model |-> model]

CacheHas(cache, key) == \E e \in cache : e.key = key

CacheGet(cache, key) == CHOOSE e \in cache : e.key = key

CacheSet(cache, e) == {x \in cache : x.key # e.key} \cup {e}

\* An updateTokenCounts call that waits for countTokens: its arguments, the
\* text it waits for ("input" or "output"), the model countTokens read from
\* selectedModel, and what countTokens waits for: the "load" of a tokenizer
\* (an import and a fetch), or only the "tick" that resolves a promise.
Waiting(input, output, model, part, counted, wait) ==
    [input |-> input, output |-> output, model |-> model, part |-> part,
     counted |-> counted, wait |-> wait]

\* initializeOpenAITokenizer / initializeAnthropicTokenizer load the tokenizer
\* unless the field holds one (model is in loadedOnes) or another call is
\* loading it.
WaitOf(model, others, loadedOnes) ==
    IF /\ model \in TokenizerModels
       /\ model \notin loadedOnes
       /\ \A k \in 1..Len(others) :
              ~(others[k].counted = model /\ others[k].wait = "load")
    THEN "load"
    ELSE "tick"

\* No promise is resolved and waiting for its tick: handlers and the effect
\* run only then.
NoTick == \A k \in 1..Len(pending) : pending[k].wait # "tick"

\* The counting section of updateTokenCounts for one text (part is "input" or
\* "output"), up to its await: m holds the cache, the two counts, the cache
\* hits and whether the call now awaits countTokens.
CountPart(m, text, model, part) ==
    IF ~Countable(text) THEN m
    ELSE LET cacheKey == getCacheKey(text, model)
         IN  IF CacheHas(m.cache, cacheKey)
             THEN [m EXCEPT ![part] = CacheGet(m.cache, cacheKey).count,
                            !.hits = @ \cup {[text |-> text, model |-> model,
                                              entry |-> CacheGet(m.cache, cacheKey)]}]
             ELSE [m EXCEPT !.awaits = TRUE]

\* The counting section from the output text on.
CountOutput(m, output, model) ==
    IF m.awaits THEN m ELSE CountPart(m, output, model, "output")

\* The part a call that awaits is waiting in.
PartOf(m1) == IF m1.awaits THEN "input" ELSE "output"

\* The counting section run as far as it goes without waiting: the variables
\* take what it computed, and the call either waits (with the calls of others)
\* or has reached its finally.
Proceed(m1, m2, input, output, model, others, loadedOnes) ==
    /\ tokenCountCache' = m2.cache
    /\ inputTokens' = m2.input
    /\ outputTokens' = m2.output
    /\ cacheHits' = m2.hits
    /\ IF m2.awaits
       THEN /\ updateInProgress' = TRUE
            /\ pending' = Append(others, Waiting(input, output, model, PartOf(m1),
                                                 selectedModel,
                                                 WaitOf(selectedModel, others, loadedOnes)))
       ELSE /\ updateInProgress' = FALSE
            /\ pending' = others

\* updateTokenCounts(input, output, model), up to its first await, called when
\* updateInProgress is inProgress and the cache is cache.
updateTokenCounts(input, output, model, inProgress, cache) ==
    LET m0 == [cache |-> cache, input |-> FirstCount(input),
               output |-> FirstCount(output), hits |-> {}, awaits |-> FALSE]
        m1 == CountPart(m0, input, model, "input")
        m2 == CountOutput(m1, output, model)
    IN  IF inProgress
        THEN /\ inputTokens' = m0.input
             /\ outputTokens' = m0.output
             /\ tokenCountCache' = cache
             /\ updateInProgress' = inProgress
             /\ UNCHANGED <<pending, cacheHits>>
        ELSE Proceed(m1, m2, input, output, model, pending, tokenizers)

\* The effect has to run: a signal it read was set to a new value, or
\* toonOutput is no longer what it read.
Scheduled == effect.dirty \/ toonOutput # effect.output

\* The constructor's effect, with the part of updateTokenCounts that runs
\* before its first await.
RunEffect ==
    /\ Scheduled
    /\ NoTick
    /\ effect' = [dirty |-> FALSE, output |-> toonOutput]
    /\ lastModel' = selectedModel
    /\ IF selectedModel # lastModel
       THEN updateTokenCounts(jsonInput, toonOutput, selectedModel, FALSE, {})
       ELSE IF ~updateInProgress
            THEN updateTokenCounts(jsonInput, toonOutput, selectedModel,
                                   updateInProgress, tokenCountCache)
            ELSE UNCHANGED <<updateInProgress, tokenCountCache, inputTokens,
                             outputTokens, pending, cacheHits>>
    /\ UNCHANGED <<selectedModel, tokenizers>>
    /\ UNCHANGED codec
    /\ UNCHANGED panes

\* pending without its k-th call.
Without(calls_, k) == SubSeq(calls_, 1, k - 1) \o SubSeq(calls_, k + 1, Len(calls_))

\* countTokens returns to the k-th waiting call: the tokenizer it waited for
\* is loaded or not, the call stores the count and goes on to its next await
\* or to its finally.
CountReturns(k, loaded) ==
    LET call == pending[k]
        text == IF call.part = "input" THEN call.input ELSE call.output
        has == IF call.wait = "load" THEN loaded ELSE call.counted \in tokenizers
        count == CountOf(text, has)
        set == CacheSet(tokenCountCache,
                        Entry(getCacheKey(text, call.model), count, text, call.counted))
        m1 == [cache |-> set,
               input |-> IF call.part = "input" THEN count ELSE inputTokens,
               output |-> IF call.part = "output" THEN count ELSE outputTokens,
               hits |-> {}, awaits |-> FALSE]
        m2 == IF call.part = "input" THEN CountOutput(m1, call.output, call.model) ELSE m1
    IN  /\ call.wait = "tick" => ~loaded
        /\ call.wait = "load" => (\A j \in 1..Len(pending) : pending[j].wait # "tick")
        /\ tokenizers' = IF call.wait = "load" /\ loaded
                         THEN tokenizers \cup {call.counted}
                         ELSE tokenizers
        /\ Proceed(m1, m2, call.input, call.output, call.model, Without(pending, k),
                   tokenizers')
        /\ UNCHANGED <<selectedModel, lastModel, effect>>
        /\ UNCHANGED codec
        /\ UNCHANGED panes

\* onModelChange(model)
onModelChange(model) ==
    /\ NoTick
    /\ IF model \in EnabledModels
       THEN selectedModel' = model
       ELSE UNCHANGED selectedModel
    /\ effect' = [effect EXCEPT !.dirty = @ \/ selectedModel' # selectedModel]
    /\ UNCHANGED <<lastModel, updateInProgress, tokenCountCache, inputTokens,
                   outputTokens, tokenizers, pending, cacheHits>>
    /\ UNCHANGED codec
    /\ UNCHANGED panes

\* selectModel(model)
selectModel(model) ==
    /\ NoTick
    /\ IF model \in EnabledModels
       THEN selectedModel' = model
       ELSE UNCHANGED selectedModel
    /\ effect' = [effect EXCEPT !.dirty = @ \/ selectedModel' # selectedModel]
    /\ UNCHANGED <<lastModel, updateInProgress, tokenCountCache, inputTokens,
                   outputTokens, tokenizers, pending, cacheHits>>
    /\ UNCHANGED codec
    /\ UNCHANGED panes

\* Two texts with the same first KeyPrefixLength characters and the same length.
LongText == Repeat("x", KeyPrefixLength) \o "y"

LongTextSpaced == Repeat("x", KeyPrefixLength) \o " "

\* The texts typed into the JSON pane while the counts are watched, and into
\* the TOON pane.
CountedJsonTexts == {"", "[]", "{\"k\": 7}", LongText, LongTextSpaced}

CountedToonTexts == {"", "k: 7"}

EditJson == NoTick /\ \E text \in CountedJsonTexts : onJsonChange(text)

EditToon == NoTick /\ \E text \in CountedToonTexts : onToonChange(text)

ModelChange == \E model \in Models : onModelChange(model)

ModelSelect == \E model \in Models : selectModel(model)

Resume == \E k \in 1..Len(pending), loaded \in BOOLEAN : CountReturns(k, loaded)

CountNext == EditJson \/ EditToon \/ ModelChange \/ ModelSelect \/ RunEffect \/ Resume

CountSpec == PaneInit /\ [][CountNext]_vars

-----------------------------------------------------------------------------
(* The claims *)

Decoded == pc \in {"decoded", "reencoded"}

Encoded == pc \in {"encoded", "decoded", "reencoded"}

\* A scalar whose text holds no ',' ':' or newline.
IsPlainScalar(v) ==
    /\ IsScalar(v)
    /\ v.t = "str" => ~(Includes(v.s, ",") \/ Includes(v.s, ":") \/ Includes(v.s, "\n"))

KeySet(o) == {o.kv[i][1] : i \in 1..Len(o.kv)}

\* C1: for every scalar value v (null, a boolean, a number, or a string
\* without ',' ':' or newline), decoding the encoding of v gives v.
C1_ScalarRoundTrip ==
    (Decoded /\ origin = "json" /\ IsPlainScalar(value)) => decoded = value

\* A non-empty array of objects that share one key set, of at least one key,
\* and hold plain scalars.
IsUniformScalarTable(v) ==
    /\ v.t = "arr"
    /\ Len(v.items) > 0
    /\ \A i \in 1..Len(v.items) :
          /\ IsPlainObject(v.items[i])
          /\ Len(v.items[i].kv) > 0
          /\ KeySet(v.items[i]) = KeySet(v.items[1])
          /\ \A k \in 1..Len(v.items[i].kv) : IsPlainScalar(v.items[i].kv[k][2])

\* d is an array as long as v whose i-th element has the keys of v's i-th
\* element and the same value, of the same type, under each.
SameRecords(d, v) ==
    /\ d.t = "arr"
    /\ Len(d.items) = Len(v.items)
    /\ \A i \in 1..Len(v.items) :
          /\ IsPlainObject(d.items[i])
          /\ KeySet(d.items[i]) = KeySet(v.items[i])
          /\ \A key \in KeySet(v.items[i]) : Get(d.items[i], key) = Get(v.items[i], key)

\* C2: for every non-empty array of objects that share one key set and hold
\* only plain scalars, decoding its encoding gives an array of the same length
\* and order with the same value, of the same type, under every key.
C2_TabularRoundTrip ==
    (Decoded /\ origin = "json" /\ IsUniformScalarTable(value))
        => SameRecords(decoded, value)

\* An object of one key whose value is a non-empty object with scalar fields.
IsOneNestedObject(v) ==
    /\ v.t = "obj"
    /\ Len(v.kv) = 1
    /\ IsPlainObject(v.kv[1][2])
    /\ Len(v.kv[1][2].kv) > 0
    /\ \A i \in 1..Len(v.kv[1][2].kv) : IsScalar(v.kv[1][2].kv[i][2])

\* C3: the encoding of an object that maps k to a non-empty object n with
\* scalar fields is the bare line `k:` followed by the lines of n's encoding,
\* each indented by two spaces; {addr: {city: "x"}} encodes to
\* "addr:\n  city: x".
C3_NestedIndentation ==
    (Encoded /\ origin = "json" /\ IsOneNestedObject(value))
        => toon = Join(<<value.kv[1][1] \o ":">>
                         \o Indent(Split(jsonToToon(value.kv[1][2]), "\n")), "\n")

\* A non-empty object whose values are scalars.
IsScalarObject(v) ==
    /\ v.t = "obj"
    /\ Len(v.kv) > 0
    /\ \A i \in 1..Len(v.kv) : IsScalar(v.kv[i][2])

\* The key each line of an object's encoding starts with: the text before
\* its first ':'.
LineKeys(text) ==
    LET lines == Split(text, "\n")
    IN  [i \in 1..Len(lines) |-> SubSeq(lines[i], 1, IndexOf(lines[i], ":"))]

\* C4: for every object with scalar values, decoding its encoding gives an
\* object with the same keys in the same order, and encoding that again lists
\* the lines in the key order of the first encoding.
C4_KeyOrderPreserved ==
    (origin = "json" /\ IsScalarObject(value))
        => /\ Decoded => (decoded.t = "obj" /\ ObjectKeys(decoded) = ObjectKeys(value))
           /\ pc = "reencoded" => LineKeys(toon2) = LineKeys(toon)

\* An array of objects of which two have different key sets.
IsMixedShapeArray(v) ==
    /\ v.t = "arr"
    /\ \A i \in 1..Len(v.items) : IsPlainObject(v.items[i])
    /\ \E i, j \in 1..Len(v.items) : KeySet(v.items[i]) # KeySet(v.items[j])

C6_EmptyContainers ==
    /\ (Encoded /\ origin = "json" /\ value = Arr(<<>>)) => toon = "[]:"
    /\ (Encoded /\ origin = "json" /\ value = Obj(<<>>)) => toon = "{}:"
    /\ (Decoded /\ toon = "[]:") => decoded = Arr(<<>>)
    /\ (Decoded /\ toon = "{}:") => decoded = Obj(<<>>)

C6_Witness ==
    /\ pc = "decoded"
    /\ value = Obj(<<>>)
    /\ toon = "{}:"
    /\ decoded = Obj(<<>>)

\* A typed text that is a header `[n]{k1,...,km}:`, m >= 1, and n row lines.
IsTypedTable(ls) ==
    /\ Len(ls) >= 1
    /\ ls[1].kind = "header"
    /\ Len(ls[1].keys) >= 1
    /\ Len(ls) = ls[1].count + 1
    /\ \A i \in 2..Len(ls) : ls[i].kind = "row"

\* The object the claim builds from a row: the header's keys, in header
\* order, each with its cell scalar-parsed, the empty string where the row
\* has no such cell.
RecordOfRow(keys, cells) ==
    Obj([j \in 1..Len(keys) |->
            <<keys[j], parseToonValue(IF j <= Len(cells) THEN Trim(cells[j]) ELSE "")>>])

\* C7: decoding a header `[n]{k1,...,km}:` followed by n row lines gives an
\* array of n objects, the i-th from the i-th row, each with exactly the keys
\* k1..km in header order, the j-th cell scalar-parsed under kj and the empty
\* string under each key the row has no cell for.
C7_HeaderArity ==
    (Decoded /\ origin = "toon" /\ IsTypedTable(typed))
        => decoded = Arr([i \in 1..typed[1].count |->
                             RecordOfRow(typed[1].keys, typed[i + 1].cells)])

\* The number of lines of ls after the first that are not blank.
RECURSIVE DataLines(_)
DataLines(ls) ==
    IF Len(ls) <= 1 THEN 0
    ELSE (IF Trim(Render(ls[Len(ls)])) # "" THEN 1 ELSE 0)
         + DataLines(SubSeq(ls, 1, Len(ls) - 1))

\* C8: decoding a tabular block whose header declares n and which has r data
\* lines raises no error and gives an array of min(n, r) objects.
C8_LenientRowCount ==
    (Decoded /\ origin = "toon" /\ typed[1].kind = "header" /\ Len(typed[1].keys) >= 1)
        => /\ decoded.t = "arr"
           /\ Len(decoded.items) = Min(typed[1].count, DataLines(typed))

C8_Witness ==
    /\ pc = "decoded"
    /\ typed = <<HeaderLine(2, <<"a", "b">>), RowLine(<<"7", " x">>)>>
    /\ decoded = Arr(<<Obj(<< <<"a", Num(7)>>, <<"b", Str("x")>> >>)>>)

\* The typed line i is blank.
IsBlankLine(ls, i) == Trim(Render(ls[i])) = ""

\* The typed line i is where the decoder looks for an array header: it is the
\* first line that is not blank, or the line before it (blank lines aside)
\* ends with ':'.
TakenAsHeader(ls, i) ==
    /\ ~IsBlankLine(ls, i)
    /\ \/ \A j \in 1..(i - 1) : IsBlankLine(ls, j)
       \/ \E j \in 1..(i - 1) :
             /\ EndsWith(Trim(Render(ls[j])), ":")
             /\ \A k \in (j + 1)..(i - 1) : IsBlankLine(ls, k)

\* C9: decoding raises an error only for a line taken as an array header that
\* fails the full header grammar, and then 'Invalid array header format';
\* every other input (lines without a colon, short or over-long row blocks,
\* unrecognised scalar text, empty input) gives a value.
C9_OnlyHeaderError ==
    (Decoded /\ IsThrown(decoded))
        => /\ decoded.msg = "Invalid array header format"
           /\ \E i \in 1..Len(typed) :
                 /\ TakenAsHeader(typed, i)
                 /\ typed[i].kind = "header"
                 /\ typed[i].keys = <<>>
                 /\ LooksLikeArrayHeader(Render(typed[i]))
                 /\ ~IsArrayHeader(Render(typed[i]))

C9_Witness ==
    /\ pc = "decoded"
    /\ typed = <<TextLine("k:"), HeaderLine(2, <<>>), RowLine(<<"x">>)>>
    /\ decoded = Thrown("Invalid array header format")

LastCall == log[Len(log)]

\* A call of onToonChange with a text on which toonToJson throws was made.
DecodeFailedBefore ==
    \E i \in 1..(Len(log) - 1) :
        /\ log[i].op = "onToonChange"
        /\ Trim(log[i].text) # ""
        /\ IsThrown(toonToJson(log[i].text))

\* C11: a call of onToonChange with a text on which decoding fails ends with
\* jsonInput = 'Error: ' followed by the decoder's message (and the typed text
\* kept in toonManualInput); and whatever calls came before, failed ones
\* included, onToonChange with a text that decodes sets jsonInput to the
\* pretty-printed JSON of the decoded value, and onJsonChange sets jsonInput
\* to its text and clears toonManualInput.
C11_DecodeFailureContained ==
    log # <<>> =>
        /\ (LastCall.op = "onToonChange" /\ Trim(LastCall.text) # ""
                /\ IsThrown(toonToJson(LastCall.text)))
              => /\ jsonInput = "Error: " \o toonToJson(LastCall.text).msg
                 /\ StartsWith(jsonInput, "Error:")
                 /\ toonManualInput = LastCall.text
        /\ (LastCall.op = "onToonChange" /\ Trim(LastCall.text) # ""
                /\ ~IsThrown(toonToJson(LastCall.text)))
              => /\ jsonInput = JsonStringify(toonToJson(LastCall.text))
                 /\ toonManualInput = LastCall.text
        /\ LastCall.op = "onJsonChange"
              => /\ jsonInput = LastCall.text
                 /\ toonManualInput = ""

C11_Witness ==
    /\ log = <<Called("onToonChange", "k:\n[2]{}:\nx"), Called("onToonChange", "k: 7")>>
    /\ DecodeFailedBefore
    /\ jsonInput = "{\n  \"k\": 7\n}"
    /\ toonManualInput = "k: 7"

\* The typed text is a bare key line `key:` followed by a line that starts
\* with two spaces.
IsTypedNestedBlock(ls) ==
    /\ Len(ls) >= 2
    /\ ls[1].kind = "text"
    /\ EndsWith(ls[1].s, ":")
    /\ Len(ls[1].s) >= 2
    /\ ~Includes(SubSeq(ls[1].s, 1, Len(ls[1].s) - 1), ":")
    /\ StartsWith(Render(ls[2]), "  ")

\* The lines of the typed text from the second on that start with two spaces,
\* up to the first that does not, each without its first two characters.
RECURSIVE StrippedBlock(_, _)
StrippedBlock(ls, j) ==
    IF j <= Len(ls) /\ StartsWith(Render(ls[j]), "  ")
    THEN <<SubSeq(Render(ls[j]), 3, Len(Render(ls[j])))>> \o StrippedBlock(ls, j + 1)
    ELSE <<>>

\* C12: decoding a bare key line `key:` whose next line starts with two spaces
\* gives an object in which key maps to the object parsed from the following
\* lines that start with two spaces, each stripped of two leading spaces, and
\* the lines after the block are decoded as further keys; "addr:\n  city: x"
\* decodes to {addr: {city: "x"}}.
C12_NestedBlockDecoded ==
    (Decoded /\ origin = "toon" /\ IsTypedNestedBlock(typed))
        => LET key == SubSeq(typed[1].s, 1, Len(typed[1].s) - 1)
               block == StrippedBlock(typed, 2)
               rest == [i \in 1..(Len(typed) - 1 - Len(block)) |->
                           Render(typed[i + 1 + Len(block)])]
           IN  /\ decoded.t = "obj"
               /\ Get(decoded, key) = parseToonObject(block)
               /\ \A k \in KeySet(parseToonObject(rest)) \ {key} :
                     Get(decoded, k) = Get(parseToonObject(rest), k)
               /\ toon = "addr:\n  city: x"
                     => decoded = Obj(<< <<"addr", Obj(<< <<"city", Str("x")>> >>)>> >>)

\* An object with a key that maps to a uniform table of plain scalars, every
\* other value a plain scalar.
HoldsKeyedTable(v) ==
    /\ v.t = "obj"
    /\ \E i \in 1..Len(v.kv) : IsUniformScalarTable(v.kv[i][2])
    /\ \A i \in 1..Len(v.kv) :
          IsUniformScalarTable(v.kv[i][2]) \/ IsPlainScalar(v.kv[i][2])

\* C13: for every object in which a key k maps to a non-empty array of
\* objects of one non-empty key set with plain scalar values, decoding the
\* object's encoding gives an object in which k maps to an array equal to
\* that array, and every other key is present with its value.
C13_KeyedTableRoundTrip ==
    (Decoded /\ origin = "json" /\ HoldsKeyedTable(value))
        => /\ decoded.t = "obj"
           /\ \A i \in 1..Len(value.kv) :
                 /\ HasKey(decoded, value.kv[i][1])
                 /\ IF IsUniformScalarTable(value.kv[i][2])
                    THEN SameRecords(Get(decoded, value.kv[i][1]), value.kv[i][2])
                    ELSE Get(decoded, value.kv[i][1]) = value.kv[i][2]

IsEmptyContainer(v) == v = Arr(<<>>) \/ v = Obj(<<>>)

\* An object with an empty array or an empty object among its values, every
\* other value a scalar.
HoldsEmptyContainer(v) ==
    /\ v.t = "obj"
    /\ \E i \in 1..Len(v.kv) : IsEmptyContainer(v.kv[i][2])
    /\ \A i \in 1..Len(v.kv) : IsEmptyContainer(v.kv[i][2]) \/ IsScalar(v.kv[i][2])

\* C14: in the encoding of an object, a key k whose value is the empty array
\* contributes the one line `k: []:`, and a key whose value is the empty
\* object the one line `k: {}:`.
C14_EmptyContainerInline ==
    (Encoded /\ origin = "json" /\ HoldsEmptyContainer(value))
        => toon = Join([i \in 1..Len(value.kv) |->
                           value.kv[i][1] \o ": "
                               \o (IF value.kv[i][2] = Arr(<<>>) THEN "[]:"
                                   ELSE IF value.kv[i][2] = Obj(<<>>) THEN "{}:"
                                   ELSE formatToonValue(value.kv[i][2]))], "\n")

\* An object with a non-empty object among its values, every other value a
\* scalar.
HoldsNestedObject(v) ==
    /\ v.t = "obj"
    /\ \E i \in 1..Len(v.kv) : IsPlainObject(v.kv[i][2])
    /\ \A i \in 1..Len(v.kv) :
          \/ IsPlainObject(v.kv[i][2]) /\ Len(v.kv[i][2].kv) > 0
          \/ IsScalar(v.kv[i][2])

\* The text has several lines or contains '[' or '{'.
LooksStructured(text) ==
    \E i \in 1..Len(text) : CharAt(text, i) \in {"\n", "[", "{"}

\* The lines the claim gives a key: for a nested object, `k:` and the nested
\* encoding's lines two spaces deeper when that encoding looks structured,
\* else the one line `k: <nested encoding>`.
ClaimedEntry(key, val) ==
    IF IsPlainObject(val)
    THEN IF LooksStructured(jsonToToon(val))
         THEN <<key \o ":">>
              \o [n \in 1..Len(Split(jsonToToon(val), "\n")) |->
                     "  " \o Split(jsonToToon(val), "\n")[n]]
         ELSE <<key \o ": " \o jsonToToon(val)>>
    ELSE <<key \o ": " \o formatToonValue(val)>>

\* C15: in the encoding of an object, a key k whose value is a non-empty
\* object contributes `k:` followed by the nested encoding indented by two
\* spaces a line exactly when the nested encoding has several lines or
\* contains '[' or '{', and otherwise the single line `k: <nested encoding>`.
C15_NestedBlockOrInline ==
    (Encoded /\ origin = "json" /\ HoldsNestedObject(value))
        => Split(toon, "\n")
              = Flatten([i \in 1..Len(value.kv) |->
                            ClaimedEntry(value.kv[i][1], value.kv[i][2])])

C15_Witness ==
    /\ pc = "encoded"
    /\ value = Obj(<< <<"addr", Obj(<< <<"a", Str("[x]")>> >>)>> >>)
    /\ toon = "addr:\n  a: [x]"

\* The typed text has no blank line, starts with a bare key line `key:` and
\* goes on with a header `[n]{k1,...,km}:`, m >= 1.
IsTypedKeyedTable(ls) ==
    /\ Len(ls) >= 2
    /\ \A i \in 1..Len(ls) : ~IsBlankLine(ls, i)
    /\ ls[1].kind = "text"
    /\ EndsWith(ls[1].s, ":")
    /\ Len(ls[1].s) >= 2
    /\ ~Includes(SubSeq(ls[1].s, 1, Len(ls[1].s) - 1), ":")
    /\ ls[2].kind = "header"
    /\ Len(ls[2].keys) >= 1

\* The line ends with ':' or starts with characters other than ':' followed
\* by ':' and a white-space character.
EndsRowBlock(s) ==
    \/ EndsWith(s, ":")
    \/ \E k \in 2..(Len(s) - 1) :
          /\ CharAt(s, k) = ":"
          /\ CharAt(s, k + 1) \in WhiteSpace
          /\ \A n \in 1..(k - 1) : CharAt(s, n) # ":"

\* The first typed line from the third on that ends the row block, or the
\* line after the last.
FirstExcluded(ls) ==
    IF \E e \in 3..Len(ls) : EndsRowBlock(Render(ls[e]))
    THEN CHOOSE e \in 3..Len(ls) :
            /\ EndsRowBlock(Render(ls[e]))
            /\ \A n \in 3..(e - 1) : ~EndsRowBlock(Render(ls[n]))
    ELSE Len(ls) + 1

\* C16: decoding a bare key line `key:` followed by a header line takes the
\* header and the lines after it up to the first that ends with ':' or
\* matches ^[^:]+:\s as the row block, assigns key the array parsed from that
\* block, and decodes the lines from that first excluded line on as the
\* further keys of the object (or raises the error those lines raise).
C16_KeyedRowBlock ==
    (Decoded /\ origin = "toon" /\ IsTypedKeyedTable(typed))
        => LET key == SubSeq(typed[1].s, 1, Len(typed[1].s) - 1)
               e == FirstExcluded(typed)
               block == [n \in 1..(e - 2) |-> Render(typed[n + 1])]
               after == parseToonObject([n \in 1..(Len(typed) - e + 1) |->
                                            Render(typed[n + e - 1])])
           IN  /\ ~IsThrown(after) =>
                     /\ decoded.t = "obj"
                     /\ KeySet(decoded) = {key} \cup KeySet(after)
                     /\ \A k \in KeySet(after) : Get(decoded, k) = Get(after, k)
                     /\ key \notin KeySet(after)
                           => Get(decoded, key) = parseToonArray(block)
               /\ IsThrown(after) => decoded = after

C16_Witness ==
    /\ pc = "decoded"
    /\ typed = <<TextLine("k:"), HeaderLine(2, <<"a", "b">>), RowLine(<<"7", " x">>),
                 TextLine("u:7"), TextLine("m: 7")>>
    /\ decoded = Obj(<< <<"k", Arr(<<Obj(<< <<"a", Num(7)>>, <<"b", Str("x")>> >>),
                                     Obj(<< <<"a", Str("u:7")>>, <<"b", Str("")>> >>)>>)>>,
                        <<"m", Num(7)>> >>)

\* The first non-blank line of the text, trimmed ("" when there is none).
FirstLine(text) ==
    IF Len(NonBlankLines(text)) = 0 THEN "" ELSE Trim(NonBlankLines(text)[1])

\* Some line after a line that ends with ':' has the shape [n]{...}: with an
\* empty column list.
HasEmptyHeaderUnderKey(text) ==
    \E i \in 2..Len(NonBlankLines(text)) :
        /\ EndsWith(Trim(NonBlankLines(text)[i - 1]), ":")
        /\ LooksLikeArrayHeader(Trim(NonBlankLines(text)[i]))
        /\ ~IsArrayHeader(Trim(NonBlankLines(text)[i]))

\* C17, as stated: the result of decoding is an array exactly when the first
\* non-blank line is `[]:` or matches ^\[(\d+)\]\{(.+)\}:$, and an object for
\* every other first line.
C17_KindByFirstLine ==
    (Decoded /\ FirstLine(toon) # "")
        => IF FirstLine(toon) = "[]:" \/ IsArrayHeader(FirstLine(toon))
           THEN decoded.t = "arr"
           ELSE decoded.t = "obj"

\* C17, amended: the result of decoding is an array exactly when the first
\* non-blank line is `[]:` or matches ^\[(\d+)\]\{(.+)\}:$; a first line of
\* the shape [n]{}: (an empty column list) raises 'Invalid array header
\* format'; every other first line gives an object, unless a line of that
\* shape under a key raises the same error.
C17_KindByFirstLineOrError ==
    (Decoded /\ FirstLine(toon) # "")
        => /\ decoded.t = "arr"
                 <=> (FirstLine(toon) = "[]:" \/ IsArrayHeader(FirstLine(toon)))
           /\ (LooksLikeArrayHeader(FirstLine(toon)) /\ ~IsArrayHeader(FirstLine(toon)))
                 => decoded = Thrown("Invalid array header format")
           /\ (FirstLine(toon) # "[]:" /\ ~LooksLikeArrayHeader(FirstLine(toon)))
                 => \/ decoded.t = "obj"
                    \/ /\ decoded = Thrown("Invalid array header format")
                       /\ HasEmptyHeaderUnderKey(toon)

C17_Witness ==
    /\ pc = "decoded"
    /\ typed = <<HeaderLine(2, <<>>), TextLine("k: 7")>>
    /\ toon = "[2]{}:\nk: 7"
    /\ decoded = Thrown("Invalid array header format")

\* The typed line is a bare key line `key:` (one colon, at its end).
IsBareKey(l) ==
    /\ l.kind = "text"
    /\ EndsWith(l.s, ":")
    /\ Len(l.s) >= 2
    /\ ~Includes(SubSeq(l.s, 1, Len(l.s) - 1), ":")
    /\ ~Includes(l.s, " ")

BareKeyOf(l) == SubSeq(l.s, 1, Len(l.s) - 1)

\* The typed text has no blank line and starts with a bare key line (not the
\* literal `[]:` or `{}:`) whose next line is neither of the header shape
\* [n]{...}: nor indented.
IsTypedBareKeyValue(ls) ==
    /\ Len(ls) >= 2
    /\ \A i \in 1..Len(ls) : ~IsBlankLine(ls, i)
    /\ IsBareKey(ls[1])
    /\ Render(ls[1]) \notin {"[]:", "{}:"}
    /\ ~LooksLikeArrayHeader(Render(ls[2]))
    /\ ~StartsWith(Render(ls[2]), " ")

\* The typed text ends with a bare key line that no line before it takes as
\* its value: it is the only line, or the second after a key/value line.
IsTypedLastBareKey(ls) ==
    \/ Len(ls) = 1 /\ IsBareKey(ls[1]) /\ Render(ls[1]) \notin {"[]:", "{}:"}
    \/ /\ Len(ls) = 2
       /\ IsBareKey(ls[2])
       /\ ls[1].kind = "text"
       /\ ~IsBlankLine(ls, 1)
       /\ ~EndsWith(ls[1].s, ":")

IsTypedScalarLine(ls) ==
    /\ Len(ls) = 1
    /\ ls[1].kind = "text"
    /\ \E s \in ScalarTexts : ls[1].s = "v: " \o s

\* The text denotes a finite number: an optional sign and decimal digits.
DenotesFiniteNumber(s) ==
    \/ IsDigits(s)
    \/ Len(s) >= 2 /\ CharAt(s, 1) \in {"-", "+"} /\ IsDigits(Tail(s))

\* The finite number the text denotes.
FiniteNumberOf(s) ==
    IF CharAt(s, 1) = "-" THEN -ParseInt(Tail(s))
    ELSE IF CharAt(s, 1) = "+" THEN ParseInt(Tail(s))
    ELSE ParseInt(s)

\* The value the claim gives a scalar text.
ClaimedScalar(s) ==
    IF s = "null" THEN Null
    ELSE IF s = "true" THEN Bool(TRUE)
    ELSE IF s = "false" THEN Bool(FALSE)
    ELSE IF s = "" THEN Str("")
    ELSE IF DenotesFiniteNumber(s) THEN Num(FiniteNumberOf(s))
    ELSE Str(s)

\* C19: scalar parsing maps `null` to Null, `true` and `false` to Bool, the
\* empty text to the empty String, any other text to a Number only if it
\* denotes a finite number, and every remaining text, `Infinity` and `NaN`
\* included, to the String of that text.  (Checked on the value of a
\* key/value line.)
C19_ScalarParse ==
    (Decoded /\ origin = "toon" /\ IsTypedScalarLine(typed))
        => decoded = Obj(<< <<"v", ClaimedScalar(SubSeq(typed[1].s, 4, Len(typed[1].s)))>> >>)

\* The lines the claim gives a table: the header `<prefix>[n]{c1,...,cm}:`
\* with n the number of elements and c1..cm the first element's keys in its
\* order, then for each element in order its values under c1..cm, joined by
\* ','.
ClaimedTable(prefix, items) ==
    LET cols == [k \in 1..Len(items[1].kv) |-> items[1].kv[k][1]]
    IN  <<prefix \o "[" \o IntToString(Len(items)) \o "]{" \o Join(cols, ",") \o "}:">>
        \o [i \in 1..Len(items) |->
               Join([k \in 1..Len(cols) |-> formatToonValue(Get(items[i], cols[k]))],
                    ",")]

\* Two elements of the array list their keys in different orders.
HasDifferingKeyOrder(v) ==
    \E i, j \in 1..Len(v.items) : ObjectKeys(v.items[i]) # ObjectKeys(v.items[j])

\* C20: the encoding of a tabular-eligible array, at the top and under a key
\* of an object, is a header whose columns are the first element's keys in
\* the first element's order and whose count is the array's length, followed
\* by exactly one row for each element in array order, each listing the
\* element's values in the header's column order, whatever the element's own
\* key order.
C20_TabularLayout ==
    /\ (Encoded /\ origin = "json" /\ IsUniformScalarTable(value))
          => Split(toon, "\n") = ClaimedTable("", value.items)
    /\ (Encoded /\ origin = "json" /\ HoldsKeyedTable(value)
            /\ IsUniformScalarTable(value.kv[1][2]))
          => /\ Len(Split(toon, "\n")) = Len(value.kv[1][2].items) + Len(value.kv)
             /\ SubSeq(Split(toon, "\n"), 1, Len(value.kv[1][2].items) + 1)
                   = ClaimedTable(value.kv[1][1], value.kv[1][2].items)

C20_Witness ==
    /\ pc = "encoded"
    /\ value = Arr(<<Obj(<< <<"a", Num(7)>>, <<"b", Str("x")>> >>),
                     Obj(<< <<"b", Num(7)>>, <<"a", Str("x")>> >>)>>)
    /\ HasDifferingKeyOrder(value)
    /\ toon = "[2]{a,b}:\n7,x\nx,7"

\* The call that was innermost before the step, as it is after the step (it
\* is still in progress: the step returned from no call).
SameCallAfter == stack'[Len(stack') - Len(stack) + 1]

\* C21: decoding terminates: every iteration of a loop of parseToonObject or
\* parseToonArray leaves the call's line index strictly greater (whichever
\* branch it takes), and every call made from a loop is handed strictly
\* fewer lines than its caller has.
C21_DecodeTerminates ==
    [][(pc = "parsing" /\ calls' = calls + 1)
          => /\ Len(stack') >= Len(stack)
             /\ SameCallAfter.lines = Head(stack).lines
             /\ SameCallAfter.i > Head(stack).i
             /\ \A k \in 1..(Len(stack') - 1) :
                   Len(stack'[k].lines) < Len(stack'[k + 1].lines)]_vars

\* Decoding has ended without an error by the time the iterations made are
\* as many as the text's lines at most.
C21_Witness ==
    /\ pc = "decoded"
    /\ typed = <<TextLine("k:"), HeaderLine(2, <<"a", "b">>), RowLine(<<"7", " x">>),
                 TextLine("u:7"), TextLine("m: 7")>>
    /\ stack = <<>>
    /\ calls = 4
    /\ decoded = toonToJson(toon)
    /\ ~IsThrown(decoded)

\* No updateTokenCounts call waits and the effect has nothing to run for: the
\* counts change no more until the user changes a text or the model.
Quiescent == pending = <<>> /\ ~Scheduled

\* The counts of a text: 0 for a blank text or an error message, otherwise
\* what countTokens returns for it with or without the tokenizer.
RightCounts(text) ==
    IF Countable(text) THEN {CountOf(text, TRUE), CountOf(text, FALSE)} ELSE {0}

\* C22: once the user has stopped changing the input and the model and every
\* pending tokenizer call has completed, inputTokens and outputTokens hold
\* the counts of the current jsonInput and the current toonOutput, not of an
\* earlier text.
C22_CountsFollowTexts ==
    Quiescent => /\ inputTokens \in RightCounts(jsonInput)
                 /\ outputTokens \in RightCounts(toonOutput)

\* C23: a count updateTokenCounts takes from tokenCountCache for a text and a
\* model was produced by countTokens for that same text under that same
\* selected model.
C23_CacheHitSameText ==
    \A h \in cacheHits : h.entry.text = h.text /\ h.entry.model = h.model

\* The step is a run of the effect in which updateTokenCounts gets past its
\* look at updateInProgress and enters its counting section.
EntersCounting ==
    /\ effect' # effect
    /\ ~effect'.dirty
    /\ selectedModel # lastModel \/ ~updateInProgress

\* C24: at every moment at most one updateTokenCounts call is inside its
\* counting section: a call enters it only when no call waits in it, and no
\* two calls ever wait in it, whatever the order of input edits, model
\* selections and tokenizer completions.
C24_OneCallCounts ==
    [][/\ EntersCounting => pending = <<>>
       /\ Len(pending') <= 1]_vars

\* A call waits in its counting section while the effect has run for a later
\* edit and started no second call.
C24_Witness ==
    /\ Len(pending) = 1
    /\ updateInProgress
    /\ ~Scheduled
    /\ Len(log) = 2
    /\ jsonInput = "[]"
    /\ pending[1].input = "{\"k\": 7}"
    /\ pending[1].part = "output"
    /\ tokenizers = {"openai"}

\* The JSON pane shows what the text of the TOON pane decodes to: the
\* pretty-printed value, or the message of the Error toonToJson threw.
JsonPaneShows(text) ==
    IF IsThrown(toonToJson(text))
    THEN jsonInput = "Error: " \o toonToJson(text).msg
    ELSE jsonInput = JsonStringify(toonToJson(text))

\* The TOON pane shows what the text of the JSON pane encodes to: nothing for
\* a blank text, the encoding of the parsed value, or an 'Error:' message
\* when the text does not parse.
ToonPaneShows(text) ==
    IF Trim(text) = "" THEN toonOutput = ""
    ELSE IF IsThrown(JsonParse(text)) THEN StartsWith(toonOutput, "Error:")
    ELSE toonOutput = jsonToToon(JsonParse(text))

\* C25: after any sequence of onJsonChange, onToonChange, onExample and
\* paste / file loads the two panes agree: with a non-blank toonManualInput,
\* toonOutput is that text and jsonInput the pretty-printed JSON of its
\* decoding or an 'Error:' message; with a blank toonManualInput, toonOutput
\* is empty (blank jsonInput), the encoding of JSON.parse(jsonInput), or an
\* 'Error:' message; and onToonChange with a blank text has cleared
\* jsonInput, toonManualInput and originalJsonInput together.
C25_PanesAgree ==
    /\ Trim(toonManualInput) # ""
          => toonOutput = toonManualInput /\ JsonPaneShows(toonManualInput)
    /\ Trim(toonManualInput) = "" => ToonPaneShows(jsonInput)
    /\ (log # <<>> /\ LastCall.op = "onToonChange" /\ Trim(LastCall.text) = "")
          => jsonInput = "" /\ toonManualInput = "" /\ originalJsonInput = ""

\* A text was typed into the TOON pane and decoded into the JSON pane, then
\* a paste replaced both.
C25_Witness ==
    /\ Len(log) = 3
    /\ log[1] = Called("onExample", "")
    /\ log[2] = Called("onToonChange", "k: 7")
    /\ log[3] = Called("onPaste", "[1]")
    /\ toonManualInput = ""
    /\ jsonInput = "[\n  1\n]"
    /\ toonOutput = jsonToToon(Arr(<<Num(1)>>))
====
